---- MODULE Spec2Model ----
(***************************************************************************)
(* why-no-sound: a diagnostic run over a Linux host's audio stack.         *)
(*                                                                         *)
(* The program runs six checks in a fixed order; each check calls external *)
(* commands, scans their text output line by line and returns one          *)
(* CheckResult.  build_report then aggregates the six results.             *)
(*                                                                         *)
(* Text is modelled as text: a line is a string, a command's stdout is the *)
(* sequence of lines that str::lines() yields, and the scanners are the    *)
(* loops of the source, one iteration per line.                            *)
(***************************************************************************)
EXTENDS Integers, Sequences, FiniteSets, TLC

VARIABLES pc, env, results, report, extracted

vars == <<pc, env, results, report, extracted>>

(***************************************************************************)
(* Option<T>: None is the empty sequence, Some(x) the one-element sequence. *)
(***************************************************************************)
None == <<>>

Some(x) == <<x>>

IsSome(o) == o # <<>>

Unwrap(o) == o[1]

MinOf(S) == CHOOSE x \in S : \A y \in S : x <= y

MaxOf(S) == CHOOSE x \in S : \A y \in S : y <= x

(***************************************************************************)
(* str primitives of the Rust standard library, as the source uses them.   *)
(* Positions are 1-based; Find returns 0 where Rust returns Option::None.  *)
(***************************************************************************)
CharAt(s, i) == SubSeq(s, i, i)

StartsWith(s, p) == Len(p) <= Len(s) /\ SubSeq(s, 1, Len(p)) = p

\* str::find: the first position at or after i where p occurs, 0 if none.
RECURSIVE FindFrom(_, _, _)
FindFrom(s, p, i) ==
    IF i + Len(p) - 1 > Len(s) THEN 0
    ELSE IF SubSeq(s, i, i + Len(p) - 1) = p THEN i
    ELSE FindFrom(s, p, i + 1)

Find(s, p) == FindFrom(s, p, 1)

\* str::contains (the empty pattern is contained in every string).
Contains(s, p) == Find(s, p) # 0

\* str::strip_prefix(p).unwrap_or("")
StripPrefix(s, p) == IF StartsWith(s, p) THEN SubSeq(s, Len(p) + 1, Len(s)) ELSE ""

IsWhitespace(c) == c \in {" ", "\t", "\n", "\r"}

RECURSIVE TrimStart(_)
TrimStart(s) ==
    IF Len(s) > 0 /\ IsWhitespace(CharAt(s, 1)) THEN TrimStart(SubSeq(s, 2, Len(s))) ELSE s

RECURSIVE TrimEnd(_)
TrimEnd(s) ==
    IF Len(s) > 0 /\ IsWhitespace(CharAt(s, Len(s)))
    THEN TrimEnd(SubSeq(s, 1, Len(s) - 1))
    ELSE s

Trim(s) == TrimEnd(TrimStart(s))

\* str::trim_matches('"')
RECURSIVE TrimQuotes(_)
TrimQuotes(s) ==
    IF Len(s) > 0 /\ CharAt(s, 1) = "\"" THEN TrimQuotes(SubSeq(s, 2, Len(s)))
    ELSE IF Len(s) > 0 /\ CharAt(s, Len(s)) = "\"" THEN TrimQuotes(SubSeq(s, 1, Len(s) - 1))
    ELSE s

UpperChars == "ABCDEFGHIJKLMNOPQRSTUVWXYZ"

LowerChars == "abcdefghijklmnopqrstuvwxyz"

LowerChar(c) ==
    LET k == Find(UpperChars, c) IN IF k = 0 THEN c ELSE CharAt(LowerChars, k)

UpperChar(c) ==
    LET k == Find(LowerChars, c) IN IF k = 0 THEN c ELSE CharAt(UpperChars, k)

RECURSIVE ToLower(_)
ToLower(s) ==
    IF Len(s) = 0 THEN "" ELSE LowerChar(CharAt(s, 1)) \o ToLower(SubSeq(s, 2, Len(s)))

RECURSIVE ToUpper(_)
ToUpper(s) ==
    IF Len(s) = 0 THEN "" ELSE UpperChar(CharAt(s, 1)) \o ToUpper(SubSeq(s, 2, Len(s)))

EqIgnoreAsciiCase(a, b) == ToLower(a) = ToLower(b)

Digits == "0123456789"

IsAsciiDigit(c) == c \in {"0", "1", "2", "3", "4", "5", "6", "7", "8", "9"}

DigitValue(c) == Find(Digits, c) - 1

\* u32::MAX in decimal.
U32MaxDigits == "4294967295"

RECURSIVE DecimalValue(_)
DecimalValue(s) ==
    IF Len(s) = 0 THEN 0
    ELSE 10 * DecimalValue(SubSeq(s, 1, Len(s) - 1)) + DigitValue(CharAt(s, Len(s)))

\* The digit string without its leading zeros.
Significant(s) ==
    LET nz == {i \in 1..Len(s) : CharAt(s, i) # "0"}
    IN  IF nz = {} THEN "" ELSE SubSeq(s, MinOf(nz), Len(s))

\* Does the digit string denote a value of at most u32::MAX?
FitsU32(s) ==
    LET sig == Significant(s)
        diff == {i \in 1..Len(sig) : CharAt(sig, i) # CharAt(U32MaxDigits, i)}
    IN  \/ Len(sig) < Len(U32MaxDigits)
        \/ /\ Len(sig) = Len(U32MaxDigits)
           /\ \/ diff = {}
              \/ DigitValue(CharAt(sig, MinOf(diff)))
                     < DigitValue(CharAt(U32MaxDigits, MinOf(diff)))

\* str::parse::<u32>(): Some(value) for a non-empty run of digits (an optional
\* leading '+') whose value fits 32 bits, None otherwise.
ParseU32(s) ==
    LET body == IF StartsWith(s, "+") THEN SubSeq(s, 2, Len(s)) ELSE s
    IN  IF /\ Len(body) > 0
           /\ \A i \in 1..Len(body) : IsAsciiDigit(CharAt(body, i))
           /\ FitsU32(body)
        THEN Some(DecimalValue(body))
        ELSE None

\* Display of an unsigned integer, as format!("{}", n) prints it.
RECURSIVE FormatUint(_)
FormatUint(n) ==
    IF n < 10 THEN CharAt(Digits, n + 1)
    ELSE FormatUint(n \div 10) \o CharAt(Digits, (n % 10) + 1)

RECURSIVE Join(_, _)
Join(strs, sep) ==
    IF Len(strs) = 0 THEN ""
    ELSE IF Len(strs) = 1 THEN strs[1]
    ELSE strs[1] \o sep \o Join(Tail(strs), sep)

\* The text whose lines() are `lines`, each line ended by a newline.
RECURSIVE Text(_)
Text(lines) == IF Len(lines) = 0 THEN "" ELSE lines[1] \o "\n" \o Text(Tail(lines))

(***************************************************************************)
(* types.rs                                                                *)
(***************************************************************************)
StatusOk == "ok"

StatusWarning == "warning"

StatusError == "error"

CheckStatus == {StatusOk, StatusWarning, StatusError}

CheckResult_ok(name, message) ==
    [name |-> name, status |-> StatusOk, message |-> message,
     suggestion |-> None, debug_info |-> None]

CheckResult_warning(name, message, suggestion) ==
    [name |-> name, status |-> StatusWarning, message |-> message,
     suggestion |-> Some(suggestion), debug_info |-> None]

CheckResult_error(name, message, suggestion) ==
    [name |-> name, status |-> StatusError, message |-> message,
     suggestion |-> Some(suggestion), debug_info |-> None]

\* The evidence text is read by no decision; the model keeps its heading.
with_debug(result, debug) == [result EXCEPT !.debug_info = Some(debug)]

(***************************************************************************)
(* runner.rs: run_command never raises.  A command that cannot be launched *)
(* yields empty stdout, an explanation in stderr and success = false.      *)
(***************************************************************************)
CommandOutput(stdout, stderr, success) ==
    [stdout |-> stdout, stderr |-> stderr, success |-> success]

Succeeded(stdout) == CommandOutput(stdout, "", TRUE)

LaunchFailure ==
    CommandOutput(<<>>, "Failed to execute command: No such file or directory (os error 2)", FALSE)

(***************************************************************************)
(* report.rs                                                               *)
(***************************************************************************)
HealthySummary ==
    "Audio system appears healthy. If you still have no sound, the issue may be application-specific."

Errors(checks) == SelectSeq(checks, LAMBDA c : c.status = StatusError)

Warnings(checks) == SelectSeq(checks, LAMBDA c : c.status = StatusWarning)

\* errors.first().map(|e| e.message.clone())
ProbableCauseMutFirstIssue(checks) ==
    LET issues == SelectSeq(checks, LAMBDA c : c.status # StatusOk)
    IN  IF Len(issues) = 0 THEN None ELSE Some(issues[1].message)

ProbableCause(checks) ==
    LET errors == Errors(checks)
    IN  IF Len(errors) = 0 THEN None ELSE Some(errors[1].message)

SummaryMutSwappedCounts(checks) ==
    LET errors == Errors(checks)
        warnings == Warnings(checks)
        probable_cause == ProbableCause(checks)
    IN  IF Len(errors) = 0 /\ Len(warnings) = 0 THEN HealthySummary
        ELSE IF Len(errors) = 0
        THEN "No critical issues found, but " \o FormatUint(Len(warnings))
                 \o " warning(s) detected that may affect audio."
        ELSE "Found " \o FormatUint(Len(warnings)) \o " error(s) and "
                 \o FormatUint(Len(errors)) \o " warning(s). Most likely cause: "
                 \o (IF IsSome(probable_cause) THEN Unwrap(probable_cause) ELSE "unknown")

Summary(checks) ==
    LET errors == Errors(checks)
        warnings == Warnings(checks)
        probable_cause == ProbableCause(checks)
    IN  IF Len(errors) = 0 /\ Len(warnings) = 0 THEN HealthySummary
        ELSE IF Len(errors) = 0
        THEN "No critical issues found, but " \o FormatUint(Len(warnings))
                 \o " warning(s) detected that may affect audio."
        ELSE "Found " \o FormatUint(Len(errors)) \o " error(s) and "
                 \o FormatUint(Len(warnings)) \o " warning(s). Most likely cause: "
                 \o (IF IsSome(probable_cause) THEN Unwrap(probable_cause) ELSE "unknown")

\* format!("{}: {}", check.message, suggestion)
FixString(check) == check.message \o ": " \o Unwrap(check.suggestion)

\* for check in &errors { if let Some(..) = check.suggestion { push } }
RECURSIVE PushErrorFixes(_, _)
PushErrorFixes(fixes, errors) ==
    IF Len(errors) = 0 THEN fixes
    ELSE PushErrorFixes(
             IF IsSome(Head(errors).suggestion)
             THEN Append(fixes, FixString(Head(errors)))
             ELSE fixes,
             Tail(errors))

SeqContains(seq, x) == \E i \in 1..Len(seq) : seq[i] = x

\* for check in &warnings { ... if !suggested_fixes.contains(&fix) { push } }
RECURSIVE PushWarningFixes(_, _)
PushWarningFixes(fixes, warnings) ==
    IF Len(warnings) = 0 THEN fixes
    ELSE PushWarningFixes(
             IF /\ IsSome(Head(warnings).suggestion)
                /\ ~SeqContains(fixes, FixString(Head(warnings)))
             THEN Append(fixes, FixString(Head(warnings)))
             ELSE fixes,
             Tail(warnings))

RECURSIVE PushAllFixes(_, _)
PushAllFixes(fixes, issues) ==
    IF Len(issues) = 0 THEN fixes
    ELSE PushAllFixes(
             IF /\ IsSome(Head(issues).suggestion)
                /\ ~SeqContains(fixes, FixString(Head(issues)))
             THEN Append(fixes, FixString(Head(issues)))
             ELSE fixes,
             Tail(issues))

\* Mutant: one pass over the issues in input order (no errors-first partition).
SuggestedFixesMutInputOrder(checks) ==
    PushWarningFixes(<<>>, SelectSeq(checks, LAMBDA c : c.status # StatusOk))

\* Mutant: the errors are deduplicated like the warnings.
SuggestedFixesMutDedupErrors(checks) ==
    PushAllFixes(PushAllFixes(<<>>, Errors(checks)), Warnings(checks))

SuggestedFixes(checks) ==
    PushWarningFixes(PushErrorFixes(<<>>, Errors(checks)), Warnings(checks))

build_report(checks) ==
    [checks |-> checks,
     summary |-> Summary(checks),
     probable_cause |-> ProbableCause(checks),
     suggested_fixes |-> SuggestedFixes(checks)]

(***************************************************************************)
(* checks/mod.rs: the fixed order of the checks, then the report.          *)
(***************************************************************************)
CheckOrder ==
    <<"audio_stack", "audio_devices", "default_sink",
      "mute_state", "sink_inputs", "bluetooth_profile">>

\* Mutant: the device check is left out of the list.
NextPcMutSkipDevices(at) ==
    IF at = "report" THEN "done"
    ELSE IF at = "audio_stack" THEN "default_sink"
    ELSE LET k == CHOOSE i \in 1..Len(CheckOrder) : CheckOrder[i] = at
         IN  IF k = Len(CheckOrder) THEN "report" ELSE CheckOrder[k + 1]

\* The position after the check (or report) at position `at`.
NextPc(at) ==
    IF at = "report" THEN "done"
    ELSE LET k == CHOOSE i \in 1..Len(CheckOrder) : CheckOrder[i] = at
         IN  IF k = Len(CheckOrder) THEN "report" ELSE CheckOrder[k + 1]

\* env holds what run_command returns at each call site of the six checks.
\* QuietEnv: no command can be launched.
QuietEnv ==
    [stack_pipewire |-> LaunchFailure, stack_wireplumber |-> LaunchFailure,
     stack_pactl_info |-> LaunchFailure, devices_aplay |-> LaunchFailure,
     sink_default |-> LaunchFailure, sink_sinks |-> LaunchFailure,
     mute_default |-> LaunchFailure, mute_sinks |-> LaunchFailure,
     inputs_default |-> LaunchFailure, inputs_list |-> LaunchFailure,
     inputs_sinks |-> LaunchFailure,
     bt_default |-> LaunchFailure, bt_cards |-> LaunchFailure]

\* A check has run: it appends its result and hands over to the next one.
Finish(check_name, result) ==
    /\ results' = Append(results, result)
    /\ pc' = NextPc(check_name)
    /\ UNCHANGED <<env, report, extracted>>

(***************************************************************************)
(* checks/mute_state.rs                                                    *)
(***************************************************************************)
MUTE_CHECK_NAME == "mute_state"

\* str::rfind(|c| !c.is_ascii_digit()): the last position at or before i
\* holding a character that is no digit, 0 if none.
RECURSIVE RFindNonDigit(_, _)
RFindNonDigit(s, i) ==
    IF i = 0 THEN 0
    ELSE IF ~IsAsciiDigit(CharAt(s, i)) THEN i
    ELSE RFindNonDigit(s, i - 1)

\* The integer before the first '%' of a trimmed Volume: line, if it parses.
ParseVolumePercent(trimmed) ==
    LET percent_pos == Find(trimmed, "%")
        before_percent == SubSeq(trimmed, 1, percent_pos - 1)
        num_start == RFindNonDigit(before_percent, Len(before_percent)) + 1
    IN  IF percent_pos = 0 THEN None
        ELSE ParseU32(SubSeq(before_percent, num_start, Len(before_percent)))

\* Mutant: the scan stops as soon as the volume is known.
ParseMuteStepMutStopOnVolume(st, line, target_sink) ==
    LET trimmed == Trim(line)
        is_name == StartsWith(trimmed, "Name:")
        in_target == IF is_name
                     THEN Trim(StripPrefix(trimmed, "Name:")) = target_sink
                     ELSE st.in_target_sink
        muted == IF StartsWith(trimmed, "Mute:")
                 THEN Some(EqIgnoreAsciiCase(Trim(StripPrefix(trimmed, "Mute:")), "yes"))
                 ELSE st.muted
        volume == IF StartsWith(trimmed, "Volume:") /\ ~IsSome(st.volume)
                  THEN ParseVolumePercent(trimmed)
                  ELSE st.volume
    IN  IF ~in_target THEN [st EXCEPT !.in_target_sink = FALSE]
        ELSE [in_target_sink |-> TRUE, muted |-> muted, volume |-> volume,
              stop |-> IsSome(volume)]

\* One iteration of the loop of parse_mute_and_volume.
ParseMuteStep(st, line, target_sink) ==
    LET trimmed == Trim(line)
        is_name == StartsWith(trimmed, "Name:")
        in_target == IF is_name
                     THEN Trim(StripPrefix(trimmed, "Name:")) = target_sink
                     ELSE st.in_target_sink
        muted == IF StartsWith(trimmed, "Mute:")
                 THEN Some(EqIgnoreAsciiCase(Trim(StripPrefix(trimmed, "Mute:")), "yes"))
                 ELSE st.muted
        volume == IF StartsWith(trimmed, "Volume:") /\ ~IsSome(st.volume)
                  THEN ParseVolumePercent(trimmed)
                  ELSE st.volume
    IN  IF ~in_target THEN [st EXCEPT !.in_target_sink = FALSE]
        ELSE [in_target_sink |-> TRUE, muted |-> muted, volume |-> volume,
              stop |-> IsSome(muted) /\ IsSome(volume)]

RECURSIVE ParseMuteLoop(_, _, _, _)
ParseMuteLoop(lines, i, st, target_sink) ==
    IF i > Len(lines) \/ st.stop THEN st
    ELSE ParseMuteLoop(lines, i + 1, ParseMuteStep(st, lines[i], target_sink), target_sink)

\* (muted, volume) as a record.
parse_mute_and_volume(output, target_sink) ==
    LET st == ParseMuteLoop(output, 1,
                  [in_target_sink |-> FALSE, muted |-> None, volume |-> None, stop |-> FALSE],
                  target_sink)
    IN  [muted |-> st.muted, volume |-> st.volume]

VeryLowVolumeMutInclusive(vol) == vol <= 5

VeryLowVolume(vol) == vol < 5

check_mute_state(default_sink_output, sinks_output) ==
    LET default_sink == Trim(Text(default_sink_output.stdout))
        debug_info == "pactl list sinks (mute info):"
        parsed == parse_mute_and_volume(sinks_output.stdout, default_sink)
    IN  IF default_sink = ""
        THEN CheckResult_warning(MUTE_CHECK_NAME, "Cannot check mute state (no default sink)",
                 "Set a default output device first")
        ELSE IF ~sinks_output.success
        THEN with_debug(CheckResult_warning(MUTE_CHECK_NAME, "Cannot check mute state",
                 "Ensure audio server is running"), debug_info)
        ELSE IF parsed.muted = Some(TRUE)
        THEN with_debug(CheckResult_error(MUTE_CHECK_NAME, "Output is muted",
                 "Unmute in sound settings or press the mute key"), debug_info)
        ELSE IF parsed.muted = Some(FALSE)
        THEN IF IsSome(parsed.volume)
             THEN IF VeryLowVolume(Unwrap(parsed.volume))
                  THEN with_debug(CheckResult_warning(MUTE_CHECK_NAME,
                           "Volume is very low (" \o FormatUint(Unwrap(parsed.volume)) \o "%)",
                           "Increase volume in sound settings"), debug_info)
                  ELSE with_debug(CheckResult_ok(MUTE_CHECK_NAME,
                           "Output is not muted (volume: "
                               \o FormatUint(Unwrap(parsed.volume)) \o "%)"), debug_info)
             ELSE with_debug(CheckResult_ok(MUTE_CHECK_NAME, "Output is not muted"), debug_info)
        ELSE with_debug(CheckResult_warning(MUTE_CHECK_NAME, "Could not determine mute state",
                 "Check sound settings manually"), debug_info)

CheckMuteState ==
    /\ pc = MUTE_CHECK_NAME
    /\ Finish(MUTE_CHECK_NAME, check_mute_state(env.mute_default, env.mute_sinks))

(***************************************************************************)
(* checks/sink_inputs.rs                                                   *)
(***************************************************************************)
INPUTS_CHECK_NAME == "sink_inputs"

SinkInput(app_name, sink_index) == [app_name |-> app_name, sink_index |-> sink_index]

\* The record under construction, pushed if it has a sink index.
PushSinkInput(inputs, st) ==
    IF IsSome(st.current_sink_index)
    THEN Append(inputs,
             SinkInput(IF st.current_app_name = "" THEN "Unknown" ELSE st.current_app_name,
                       Unwrap(st.current_sink_index)))
    ELSE inputs

\* One iteration of the loop of parse_sink_inputs.
ParseSinkInputsStep(st, line) ==
    LET trimmed == Trim(line)
        s1 == IF StartsWith(trimmed, "Sink:")
              THEN [inputs |-> PushSinkInput(st.inputs, st),
                    current_sink_index |-> ParseU32(Trim(StripPrefix(trimmed, "Sink:"))),
                    current_app_name |-> ""]
              ELSE st
        s2 == IF StartsWith(trimmed, "application.name = ")
              THEN [s1 EXCEPT !.current_app_name =
                        TrimQuotes(StripPrefix(trimmed, "application.name = "))]
              ELSE s1
    IN  IF s2.current_app_name = "" /\ StartsWith(trimmed, "media.name = ")
        THEN [s2 EXCEPT !.current_app_name = TrimQuotes(StripPrefix(trimmed, "media.name = "))]
        ELSE s2

RECURSIVE ParseSinkInputsLoop(_, _, _)
ParseSinkInputsLoop(lines, i, st) ==
    IF i > Len(lines) THEN st
    ELSE ParseSinkInputsLoop(lines, i + 1, ParseSinkInputsStep(st, lines[i]))

parse_sink_inputs(output) ==
    LET st == ParseSinkInputsLoop(output, 1,
                  [inputs |-> <<>>, current_sink_index |-> None, current_app_name |-> ""])
    IN  PushSinkInput(st.inputs, st)

\* One iteration of the loop of parse_sink_index_map.
ParseSinkIndexMapStep(st, line) ==
    LET trimmed == Trim(line)
        current_index == IF StartsWith(trimmed, "Sink #")
                         THEN ParseU32(StripPrefix(trimmed, "Sink #"))
                         ELSE st.current_index
    IN  IF IsSome(current_index) /\ StartsWith(trimmed, "Name:")
        THEN [map |-> Append(st.map, <<Unwrap(current_index), Trim(StripPrefix(trimmed, "Name:"))>>),
              current_index |-> None]
        ELSE [st EXCEPT !.current_index = current_index]

RECURSIVE ParseSinkIndexMapLoop(_, _, _)
ParseSinkIndexMapLoop(lines, i, st) ==
    IF i > Len(lines) THEN st
    ELSE ParseSinkIndexMapLoop(lines, i + 1, ParseSinkIndexMapStep(st, lines[i]))

parse_sink_index_map(output) ==
    ParseSinkIndexMapLoop(output, 1, [map |-> <<>>, current_index |-> None]).map

\* sink_map.iter().find(|(idx, _)| *idx == input.sink_index) ... unwrap_or("")
ResolveSinkName(sink_map, sink_index) ==
    LET hits == {k \in 1..Len(sink_map) : sink_map[k][1] = sink_index}
    IN  IF hits = {} THEN "" ELSE sink_map[MinOf(hits)][2]

\* Mutant: a stream whose sink index resolves to no name counts as misrouted.
IsMisroutedMutUnresolved(sink_name, default_sink) == sink_name # default_sink

IsMisrouted(sink_name, default_sink) == sink_name # "" /\ sink_name # default_sink

RECURSIVE Misrouted(_, _, _)
Misrouted(inputs, sink_map, default_sink) ==
    IF Len(inputs) = 0 THEN <<>>
    ELSE LET input == Head(inputs)
             sink_name == ResolveSinkName(sink_map, input.sink_index)
         IN  (IF IsMisrouted(sink_name, default_sink)
              THEN <<"'" \o input.app_name \o "' is playing to '" \o sink_name \o "'">>
              ELSE <<>>)
             \o Misrouted(Tail(inputs), sink_map, default_sink)

check_sink_inputs(default_sink_output, inputs_output, sinks_output) ==
    LET default_sink == Trim(Text(default_sink_output.stdout))
        debug_info == "pactl list sink-inputs:"
        inputs == parse_sink_inputs(inputs_output.stdout)
        sink_map == parse_sink_index_map(sinks_output.stdout)
        misrouted == Misrouted(inputs, sink_map, default_sink)
    IN  IF default_sink = ""
        THEN CheckResult_warning(INPUTS_CHECK_NAME,
                 "Cannot check stream routing (no default sink)",
                 "Set a default output device first")
        ELSE IF ~inputs_output.success
        THEN with_debug(CheckResult_warning(INPUTS_CHECK_NAME,
                 "Cannot list active audio streams", "Ensure audio server is running"),
                 debug_info)
        ELSE IF Len(inputs) = 0
        THEN with_debug(CheckResult_ok(INPUTS_CHECK_NAME,
                 "No active audio streams (nothing playing)"), debug_info)
        ELSE IF Len(misrouted) # 0
        THEN with_debug(CheckResult_warning(INPUTS_CHECK_NAME,
                 FormatUint(Len(misrouted)) \o " stream(s) playing to non-default output: "
                     \o Join(misrouted, ", "),
                 "Move streams to default output in sound settings or pavucontrol"),
                 debug_info)
        ELSE with_debug(CheckResult_ok(INPUTS_CHECK_NAME,
                 FormatUint(Len(inputs)) \o " active stream(s) correctly routed"), debug_info)

CheckSinkInputs ==
    /\ pc = INPUTS_CHECK_NAME
    /\ Finish(INPUTS_CHECK_NAME,
              check_sink_inputs(env.inputs_default, env.inputs_list, env.inputs_sinks))

(***************************************************************************)
(* checks/sink_validity.rs                                                 *)
(***************************************************************************)
SINK_CHECK_NAME == "default_sink"

SinkInfo(st) ==
    [name |-> st.current_name, description |-> st.current_desc, state |-> st.current_state,
     active_port |-> st.current_active_port,
     port_availability |-> st.current_port_availability]

\* The field branches of the loop body of parse_sink_info, for a line of the
\* target sink.
ParseSinkFields(st, trimmed) ==
    IF StartsWith(trimmed, "Description:")
    THEN [st EXCEPT !.current_desc = Trim(StripPrefix(trimmed, "Description:"))]
    ELSE IF StartsWith(trimmed, "State:")
    THEN [st EXCEPT !.current_state = Trim(StripPrefix(trimmed, "State:"))]
    ELSE IF StartsWith(trimmed, "Active Port:")
    THEN [st EXCEPT !.current_active_port = Trim(StripPrefix(trimmed, "Active Port:"))]
    ELSE IF StartsWith(trimmed, "Ports:")
    THEN [st EXCEPT !.in_ports_section = TRUE]
    ELSE IF st.in_ports_section /\ Contains(trimmed, st.current_active_port)
    THEN IF Contains(trimmed, "not available")
         THEN [st EXCEPT !.current_port_availability = "not available"]
         ELSE IF Contains(trimmed, "available")
         THEN [st EXCEPT !.current_port_availability = "available"]
         ELSE st
    ELSE st

\* One iteration of the loop of parse_sink_info; `returned` holds the value of
\* the early return at the boundary that ends the target sink.
ParseSinkInfoStep(st, line, target_sink) ==
    LET trimmed == Trim(line)
        name == Trim(StripPrefix(trimmed, "Name:"))
        bounded ==
            IF StartsWith(trimmed, "Name:")
            THEN [st EXCEPT !.current_name = name,
                            !.in_target_sink = (name = target_sink),
                            !.current_desc = "",
                            !.current_state = "",
                            !.current_active_port = "",
                            !.current_port_availability = "",
                            !.in_ports_section = FALSE]
            ELSE st
    IN  IF StartsWith(trimmed, "Name:") /\ st.in_target_sink
        THEN [st EXCEPT !.returned = Some(SinkInfo(st))]
        ELSE IF ~bounded.in_target_sink THEN bounded
        ELSE ParseSinkFields(bounded, trimmed)

RECURSIVE ParseSinkInfoLoop(_, _, _, _)
ParseSinkInfoLoop(lines, i, st, target_sink) ==
    IF i > Len(lines) \/ IsSome(st.returned) THEN st
    ELSE ParseSinkInfoLoop(lines, i + 1, ParseSinkInfoStep(st, lines[i], target_sink),
                           target_sink)

\* Option<SinkInfo>
parse_sink_info(output, target_sink) ==
    LET st == ParseSinkInfoLoop(output, 1,
                  [current_name |-> "", current_desc |-> "", current_state |-> "",
                   current_active_port |-> "", current_port_availability |-> "",
                   in_target_sink |-> FALSE, in_ports_section |-> FALSE, returned |-> None],
                  target_sink)
    IN  IF IsSome(st.returned) THEN st.returned
        ELSE IF st.in_target_sink THEN Some(SinkInfo(st))
        ELSE None

IsHdmi(info) ==
    Contains(ToLower(info.name), "hdmi") \/ Contains(ToLower(info.description), "hdmi")

PortUnavailable(info) ==
    \/ Contains(ToLower(info.active_port), "unavailable")
    \/ info.port_availability = "not available"

check_default_sink(default_sink_output, sinks_output) ==
    LET debug_info == "pactl get-default-sink:"
        default_sink == Trim(Text(default_sink_output.stdout))
        sink_info == parse_sink_info(sinks_output.stdout, default_sink)
        info == Unwrap(sink_info)
    IN  IF ~default_sink_output.success
        THEN with_debug(CheckResult_error(SINK_CHECK_NAME,
                 "Cannot determine default sink (audio server not responding)",
                 "Ensure PipeWire or PulseAudio is running"), debug_info)
        ELSE IF default_sink = ""
        THEN with_debug(CheckResult_error(SINK_CHECK_NAME, "No default sink configured",
                 "Set a default output device in your sound settings"), debug_info)
        ELSE IF ~sinks_output.success
        THEN with_debug(CheckResult_warning(SINK_CHECK_NAME, "Cannot list sinks",
                 "Check audio server status"), debug_info)
        ELSE IF ~IsSome(sink_info)
        THEN with_debug(CheckResult_error(SINK_CHECK_NAME,
                 "Default sink '" \o default_sink \o "' not found in sink list",
                 "Your default audio device may have been removed. Select a new output device."),
                 debug_info)
        ELSE IF ToUpper(info.state) = "SUSPENDED"
        THEN with_debug(CheckResult_warning(SINK_CHECK_NAME,
                 "Default sink is SUSPENDED (no active audio streams)",
                 "This is normal when nothing is playing. Try playing audio."), debug_info)
        ELSE IF IsHdmi(info) /\ PortUnavailable(info)
        THEN with_debug(CheckResult_error(SINK_CHECK_NAME,
                 "Default output is HDMI (" \o info.description \o ") but appears disconnected",
                 "Switch output to Built-in Audio or connect your HDMI display"), debug_info)
        ELSE with_debug(CheckResult_ok(SINK_CHECK_NAME, "Default sink: " \o info.description),
                 debug_info)

CheckDefaultSink ==
    /\ pc = SINK_CHECK_NAME
    /\ Finish(SINK_CHECK_NAME, check_default_sink(env.sink_default, env.sink_sinks))

(***************************************************************************)
(* checks/bluetooth.rs                                                     *)
(***************************************************************************)
BT_CHECK_NAME == "bluetooth_profile"

\* struct BluetoothCard, built from the accumulators of parse_bluetooth_cards.
BluetoothCard(st) ==
    [name |-> st.current_name, description |-> st.current_desc,
     active_profile |-> st.current_profile,
     available_profiles |-> st.current_profiles, sinks |-> st.current_sinks]

\* Mutant: the card in progress is pushed without asking whether there is one.
PushBluetoothCardMutAlways(st) == Append(st.cards, BluetoothCard(st))

\* if is_bluetooth && !current_name.is_empty() { cards.push(...) }
PushBluetoothCard(st) ==
    IF st.is_bluetooth /\ st.current_name # ""
    THEN Append(st.cards, BluetoothCard(st))
    ELSE st.cards

\* The label of a line of the Profiles: subsection, if it yields one.
ProfileLabel(trimmed) ==
    LET colon_pos == Find(trimmed, ":")
        profile_name == Trim(SubSeq(trimmed, 1, colon_pos - 1))
    IN  IF colon_pos # 0 /\ profile_name # "" /\ ~StartsWith(profile_name, "Part of")
        THEN Some(profile_name)
        ELSE None

\* The lines of the loop body after the card boundary, for a bluetooth card.
ParseCardFields(st, trimmed) ==
    LET s1 == IF StartsWith(trimmed, "device.description = ")
              THEN [st EXCEPT !.current_desc =
                        TrimQuotes(StripPrefix(trimmed, "device.description = "))]
              ELSE st
        s2 == IF StartsWith(trimmed, "Active Profile:")
              THEN [s1 EXCEPT !.current_profile = Trim(StripPrefix(trimmed, "Active Profile:"))]
              ELSE s1
    IN  IF StartsWith(trimmed, "Profiles:")
        THEN [s2 EXCEPT !.in_profiles_section = TRUE, !.in_sinks_section = FALSE]
        ELSE IF StartsWith(trimmed, "Sinks:")
        THEN [s2 EXCEPT !.in_sinks_section = TRUE, !.in_profiles_section = FALSE]
        ELSE LET label == ProfileLabel(trimmed)
                 s3 == IF s2.in_profiles_section /\ IsSome(label)
                       THEN [s2 EXCEPT !.current_profiles = Append(@, Unwrap(label))]
                       ELSE s2
             IN  IF s3.in_sinks_section
                    /\ (Contains(trimmed, "bluez") \/ StartsWith(trimmed, "#"))
                 THEN [s3 EXCEPT !.current_sinks = Append(@, trimmed)]
                 ELSE s3

\* One turn of `for line in output.lines()`.
ParseCardsStep(st, line) ==
    LET trimmed == Trim(line)
        current_name == Trim(StripPrefix(trimmed, "Name:"))
        s1 == IF StartsWith(trimmed, "Name:")
              THEN [cards |-> PushBluetoothCard(st),
                    current_name |-> current_name,
                    is_bluetooth |-> Contains(current_name, "bluez")
                                        \/ Contains(current_name, "bluetooth"),
                    current_desc |-> "", current_profile |-> "",
                    current_profiles |-> <<>>, current_sinks |-> <<>>,
                    in_profiles_section |-> FALSE, in_sinks_section |-> FALSE]
              ELSE st
    IN  IF ~s1.is_bluetooth THEN s1 ELSE ParseCardFields(s1, trimmed)

RECURSIVE ParseCardsLoop(_, _, _)
ParseCardsLoop(lines, i, st) ==
    IF i > Len(lines) THEN st
    ELSE ParseCardsLoop(lines, i + 1, ParseCardsStep(st, lines[i]))

parse_bluetooth_cards(output) ==
    PushBluetoothCard(
        ParseCardsLoop(output, 1,
            [cards |-> <<>>, current_name |-> "", current_desc |-> "",
             current_profile |-> "", current_profiles |-> <<>>, current_sinks |-> <<>>,
             in_profiles_section |-> FALSE, in_sinks_section |-> FALSE,
             is_bluetooth |-> FALSE]))

\* default_sink.contains(&card.name) || card.sinks.iter().any(...)
IsActiveCard(card, default_sink) ==
    \/ Contains(default_sink, card.name)
    \/ \E k \in 1..Len(card.sinks) : Contains(default_sink, card.sinks[k])

IsHspHfp(card) ==
    LET profile_lower == ToLower(card.active_profile)
    IN  \/ Contains(profile_lower, "hsp")
        \/ Contains(profile_lower, "hfp")
        \/ Contains(profile_lower, "headset-head-unit")

HasA2dp(card) ==
    \E k \in 1..Len(card.available_profiles) :
        Contains(ToLower(card.available_profiles[k]), "a2dp")

\* Mutant: any card in call mode yields the Error, active output or not.
CallModeResultMutIgnoreActive(issues, has_active_bt) ==
    CheckResult_error(BT_CHECK_NAME,
        "Bluetooth headset in call mode: " \o Join(issues, "; "),
        "Switch Bluetooth profile to A2DP (high-quality audio) in sound settings")

\* The three outcomes of a non-empty issue list.
CallModeResult(issues, has_active_bt) ==
    LET has_a2dp_available == \E k \in 1..Len(issues) : Contains(issues[k], "A2DP available")
    IN  IF has_a2dp_available /\ has_active_bt
        THEN CheckResult_error(BT_CHECK_NAME,
                 "Bluetooth headset in call mode: " \o Join(issues, "; "),
                 "Switch Bluetooth profile to A2DP (high-quality audio) in sound settings")
        ELSE IF has_active_bt
        THEN CheckResult_warning(BT_CHECK_NAME,
                 "Bluetooth in low-quality mode: " \o Join(issues, "; "),
                 "A2DP profile may not be available. Check if device supports it.")
        ELSE CheckResult_warning(BT_CHECK_NAME,
                 "Bluetooth device in call mode but not active output: "
                     \o Join(issues, "; "),
                 "If using Bluetooth, switch profile to A2DP for better quality")

\* The issue a card contributes, in a list of zero or one entry.
CardIssue(card) ==
    IF ~IsHspHfp(card) THEN <<>>
    ELSE IF HasA2dp(card)
    THEN <<"'" \o card.description \o "' is in call/headset mode ("
             \o card.active_profile \o "), A2DP available">>
    ELSE <<"'" \o card.description \o "' is in call/headset mode ("
             \o card.active_profile \o "), A2DP not available">>

RECURSIVE CardIssues(_, _)
CardIssues(bt_cards, k) ==
    IF k > Len(bt_cards) THEN <<>>
    ELSE CardIssue(bt_cards[k]) \o CardIssues(bt_cards, k + 1)

check_bluetooth_profile(default_sink_output, cards_output) ==
    LET default_sink == Trim(Text(default_sink_output.stdout))
        debug_info == "pactl list cards (bluetooth info):"
        bt_cards == parse_bluetooth_cards(cards_output.stdout)
        has_active_bt == \E k \in 1..Len(bt_cards) : IsActiveCard(bt_cards[k], default_sink)
        issues == CardIssues(bt_cards, 1)
    IN  IF ~cards_output.success
        THEN with_debug(CheckResult_ok(BT_CHECK_NAME,
                 "No Bluetooth audio issues (cannot list cards)"), debug_info)
        ELSE IF Len(bt_cards) = 0
        THEN with_debug(CheckResult_ok(BT_CHECK_NAME,
                 "No Bluetooth audio devices connected"), debug_info)
        ELSE IF Len(issues) # 0
        THEN with_debug(CallModeResult(issues, has_active_bt), debug_info)
        ELSE with_debug(CheckResult_ok(BT_CHECK_NAME,
                 IF has_active_bt THEN "Bluetooth audio profile is optimal (A2DP)"
                 ELSE "Bluetooth device connected with correct profile"), debug_info)

CheckBluetoothProfile ==
    /\ pc = BT_CHECK_NAME
    /\ Finish(BT_CHECK_NAME, check_bluetooth_profile(env.bt_default, env.bt_cards))

(***************************************************************************)
(* checks/audio_stack.rs                                                   *)
(***************************************************************************)
STACK_CHECK_NAME == "audio_stack"

\* str::trim_start_matches: strips the prefix as often as it repeats.
RECURSIVE TrimStartMatches(_, _)
TrimStartMatches(s, p) ==
    IF p # "" /\ StartsWith(s, p) THEN TrimStartMatches(StripPrefix(s, p), p) ELSE s

\* .lines().find(|line| line.starts_with("Server Name:")).map(...).unwrap_or("")
ServerName(lines) ==
    LET hits == {i \in 1..Len(lines) : StartsWith(lines[i], "Server Name:")}
    IN  IF hits = {} THEN ""
        ELSE Trim(TrimStartMatches(lines[MinOf(hits)], "Server Name:"))

\* systemctl --user is-active <unit>: stdout.trim() == "active"
IsActive(output) == Trim(Text(output.stdout)) = "active"

\* Mutant: the two fallback branches also require wireplumber not to run.
check_audio_stackMutNeitherActive(pipewire_output, wireplumber_output, pactl_output) ==
    LET debug_info == "systemctl --user is-active pipewire:"
        pipewire_running == IsActive(pipewire_output)
        wireplumber_running == IsActive(wireplumber_output)
        pactl_works == pactl_output.success
        server_name == ServerName(pactl_output.stdout)
        is_pipewire_pulse == Contains(ToLower(server_name), "pipewire")
    IN  IF pipewire_running /\ wireplumber_running
        THEN with_debug(CheckResult_ok(STACK_CHECK_NAME,
                 "PipeWire and WirePlumber are running"), debug_info)
        ELSE IF pipewire_running /\ ~wireplumber_running
        THEN with_debug(CheckResult_warning(STACK_CHECK_NAME,
                 "PipeWire is running but WirePlumber is not",
                 "Start WirePlumber: systemctl --user start wireplumber"), debug_info)
        ELSE IF ~pipewire_running /\ ~wireplumber_running /\ pactl_works /\ ~is_pipewire_pulse
        THEN with_debug(CheckResult_ok(STACK_CHECK_NAME,
                 "PulseAudio is running (legacy mode)"), debug_info)
        ELSE IF ~pipewire_running /\ ~wireplumber_running /\ pactl_works /\ is_pipewire_pulse
        THEN with_debug(CheckResult_ok(STACK_CHECK_NAME,
                 "PipeWire is running (socket-activated)"), debug_info)
        ELSE IF ~pactl_works
        THEN with_debug(CheckResult_error(STACK_CHECK_NAME,
                 "No audio server detected",
                 "Start PipeWire: systemctl --user start pipewire pipewire-pulse wireplumber"),
                 debug_info)
        ELSE with_debug(CheckResult_warning(STACK_CHECK_NAME,
                 "Audio stack status is unclear",
                 "Check your audio server manually: systemctl --user status pipewire"),
                 debug_info)

check_audio_stack(pipewire_output, wireplumber_output, pactl_output) ==
    LET debug_info == "systemctl --user is-active pipewire:"
        pipewire_running == IsActive(pipewire_output)
        wireplumber_running == IsActive(wireplumber_output)
        pactl_works == pactl_output.success
        server_name == ServerName(pactl_output.stdout)
        is_pipewire_pulse == Contains(ToLower(server_name), "pipewire")
    IN  IF pipewire_running /\ wireplumber_running
        THEN with_debug(CheckResult_ok(STACK_CHECK_NAME,
                 "PipeWire and WirePlumber are running"), debug_info)
        ELSE IF pipewire_running /\ ~wireplumber_running
        THEN with_debug(CheckResult_warning(STACK_CHECK_NAME,
                 "PipeWire is running but WirePlumber is not",
                 "Start WirePlumber: systemctl --user start wireplumber"), debug_info)
        ELSE IF ~pipewire_running /\ pactl_works /\ ~is_pipewire_pulse
        THEN with_debug(CheckResult_ok(STACK_CHECK_NAME,
                 "PulseAudio is running (legacy mode)"), debug_info)
        ELSE IF ~pipewire_running /\ pactl_works /\ is_pipewire_pulse
        THEN with_debug(CheckResult_ok(STACK_CHECK_NAME,
                 "PipeWire is running (socket-activated)"), debug_info)
        ELSE IF ~pactl_works
        THEN with_debug(CheckResult_error(STACK_CHECK_NAME,
                 "No audio server detected",
                 "Start PipeWire: systemctl --user start pipewire pipewire-pulse wireplumber"),
                 debug_info)
        ELSE with_debug(CheckResult_warning(STACK_CHECK_NAME,
                 "Audio stack status is unclear",
                 "Check your audio server manually: systemctl --user status pipewire"),
                 debug_info)

CheckAudioStack ==
    /\ pc = STACK_CHECK_NAME
    /\ Finish(STACK_CHECK_NAME,
              check_audio_stack(env.stack_pipewire, env.stack_wireplumber, env.stack_pactl_info))

(***************************************************************************)
(* checks/device_presence.rs                                               *)
(***************************************************************************)
DEVICES_CHECK_NAME == "audio_devices"

\* Mutant: a line that holds "card " anywhere counts as a card.
CardCountMutAnywhere(lines) ==
    Cardinality({i \in 1..Len(lines) : Contains(lines[i], "card ")})

\* output.stdout.lines().filter(|line| line.starts_with("card ")).count()
CardCount(lines) == Cardinality({i \in 1..Len(lines) : StartsWith(lines[i], "card ")})

\* output.stdout.contains(p), for a pattern without a line break.
AnyLineContains(lines, p) == \E i \in 1..Len(lines) : Contains(lines[i], p)

check_audio_devices(output) ==
    LET debug_info == "aplay -l:"
    IN  IF /\ ~output.success
           /\ Contains(output.stderr, "not found") \/ Contains(output.stderr, "No such file")
        THEN with_debug(CheckResult_warning(DEVICES_CHECK_NAME,
                 "Cannot check audio devices (aplay not installed)",
                 "Install alsa-utils package for full diagnostics"), debug_info)
        ELSE IF \/ Contains(output.stderr, "no soundcards found")
                \/ AnyLineContains(output.stdout, "no soundcards found")
        THEN with_debug(CheckResult_error(DEVICES_CHECK_NAME,
                 "No audio devices detected",
                 "Possible cause: missing driver or disabled device in BIOS"), debug_info)
        ELSE IF CardCount(output.stdout) # 0
        THEN with_debug(CheckResult_ok(DEVICES_CHECK_NAME,
                 FormatUint(CardCount(output.stdout)) \o " audio device(s) detected"),
                 debug_info)
        ELSE with_debug(CheckResult_error(DEVICES_CHECK_NAME,
                 "No audio devices detected",
                 "Possible cause: missing driver or disabled device in BIOS"), debug_info)

CheckAudioDevices ==
    /\ pc = DEVICES_CHECK_NAME
    /\ Finish(DEVICES_CHECK_NAME, check_audio_devices(env.devices_aplay))

\* main.rs: let mut report = report::build_report(check_results);
BuildReport ==
    /\ pc = "report"
    /\ report' = Some(build_report(results))
    /\ pc' = NextPc("report")
    /\ UNCHANGED <<env, results, extracted>>

\* The five extractors, each applied to the listing its check hands it.
ExtractListings ==
    /\ pc = "extract"
    /\ extracted' = Some(
           [cards |-> parse_bluetooth_cards(env.bt_cards.stdout),
            inputs |-> parse_sink_inputs(env.inputs_list.stdout),
            sink_map |-> parse_sink_index_map(env.inputs_sinks.stdout),
            sink_info |-> parse_sink_info(env.sink_sinks.stdout,
                                          Trim(Text(env.sink_default.stdout))),
            mute_and_volume |-> parse_mute_and_volume(env.mute_sinks.stdout,
                                          Trim(Text(env.mute_default.stdout)))])
    /\ pc' = "extracted"
    /\ UNCHANGED <<env, results, report>>

(***************************************************************************)
(* build_report as a function of its input list: the list is drawn from    *)
(* outcomes of every status, with colliding "<message>: <suggestion>"      *)
(* strings and with absent suggestions.                                    *)
(***************************************************************************)
MaxChecks == 4

\* (message, suggestion) pairs: "A: x: x" is the fix string of two of them.
IssueTexts ==
    {<<"A", None>>, <<"A", Some("x")>>, <<"A", Some("x: x")>>,
     <<"A: x", Some("x")>>, <<"A: x", Some("x: x")>>}

OutcomeShapes ==
    {[status |-> StatusOk, message |-> "fine", suggestion |-> None]}
    \cup {[status |-> s, message |-> t[1], suggestion |-> t[2]]
            : s \in {StatusWarning, StatusError}, t \in IssueTexts}

\* The list of n outcomes with the shapes f[1..n], named after the checks.
ReportInput(n, f) ==
    [i \in 1..n |->
        [name |-> CheckOrder[i], status |-> f[i].status, message |-> f[i].message,
         suggestion |-> f[i].suggestion, debug_info |-> None]]

InitReport ==
    /\ pc = "report"
    /\ env = QuietEnv
    /\ \E n \in 0..MaxChecks : \E f \in [1..n -> OutcomeShapes] :
           results = ReportInput(n, f)
    /\ report = None
    /\ extracted = None

NextReport == BuildReport

SpecReport == InitReport /\ [][NextReport]_vars

(***************************************************************************)
(* check_mute_state over sinks listings in the layout of `pactl list       *)
(* sinks`: the default sink's record with every choice and order of up to  *)
(* MaxMuteFields field lines, alone or next to another sink's record.      *)
(***************************************************************************)
MaxMuteFields == 3

AnalogSink == "alsa_output.pci-0000_00_1f.3.analog-stereo"

HdmiSink == "alsa_output.pci-0000_01_00.1.hdmi-stereo"

MuteFieldMenu ==
    {"\tMute: yes",
     "\tMute: no",
     "\tVolume: front-left: 0 /   0% / -inf dB,   front-right: 0 /   0% / -inf dB",
     "\tVolume: front-left: 2621 /   4% / -83.87 dB,   front-right: 65536 / 100% / 0.00 dB",
     "\tVolume: front-left: 3277 /   5% / -78.06 dB,   front-right: 3277 /   5% / -78.06 dB",
     "\tVolume: front-left: 65536 / 100% / 0.00 dB,   front-right: 2621 /   4% / -83.87 dB",
     "\tVolume: (invalid)",
     "\tBase Volume: 65536 / 100% / 0.00 dB"}

SinkHeader(index, name) ==
    <<"Sink #" \o index, "\tState: RUNNING", "\tName: " \o name>>

\* The other sink's record: muted at volume 0, or unmuted at full volume.
OtherSinkRecords ==
    {SinkHeader("1", HdmiSink) \o <<"\tMute: yes", MuteLineZero>> : MuteLineZero \in
         {"\tVolume: front-left: 0 /   0% / -inf dB,   front-right: 0 /   0% / -inf dB"}}
    \cup
    {SinkHeader("1", HdmiSink) \o <<"\tMute: no", MuteLineFull>> : MuteLineFull \in
         {"\tVolume: front-left: 65536 / 100% / 0.00 dB,   front-right: 65536 / 100% / 0.00 dB"}}

\* The listings holding `target` (the default sink's record).
MuteListings(target) ==
    {target} \cup {other \o target : other \in OtherSinkRecords}
             \cup {target \o other : other \in OtherSinkRecords}

InitMute ==
    /\ pc = MUTE_CHECK_NAME
    /\ results = <<>>
    /\ report = None
    /\ extracted = None
    /\ \/ \E n \in 0..MaxMuteFields : \E f \in [1..n -> MuteFieldMenu] :
          \E listing \in MuteListings(SinkHeader("0", AnalogSink) \o f) :
              env = [QuietEnv EXCEPT !.mute_default = Succeeded(<<AnalogSink>>),
                                     !.mute_sinks = Succeeded(listing)]
       \/ \E default \in {LaunchFailure, Succeeded(<<>>), Succeeded(<<AnalogSink>>)} :
          \E sinks \in {LaunchFailure, Succeeded(<<>>)} \cup {Succeeded(r) : r \in OtherSinkRecords} :
              env = [QuietEnv EXCEPT !.mute_default = default, !.mute_sinks = sinks]

NextMute == CheckMuteState

SpecMute == InitMute /\ [][NextMute]_vars

(***************************************************************************)
(* check_sink_inputs over listings in the layout of `pactl list            *)
(* sink-inputs`: up to MaxStreams stream records, each bound to sink 0, 1,  *)
(* an index no sink has, or an index that is no u32, each with its         *)
(* application.name and media.name properties present or not, either order. *)
(***************************************************************************)
MaxStreams == 2

StreamApps == <<"Firefox", "mpv", "Spotify", "Chromium">>

StreamSinkValues == {"0", "1", "7", "4294967296"}

StreamProps(k) ==
    [none |-> <<>>,
     app |-> <<"\t\tapplication.name = \"" \o StreamApps[k] \o "\"">>,
     media |-> <<"\t\tmedia.name = \"Playback\"">>,
     media_app |-> <<"\t\tmedia.name = \"Playback\"",
                     "\t\tapplication.name = \"" \o StreamApps[k] \o "\"">>,
     app_media |-> <<"\t\tapplication.name = \"" \o StreamApps[k] \o "\"",
                     "\t\tmedia.name = \"Playback\"">>]

StreamPropChoices == {"none", "app", "media", "media_app", "app_media"}

StreamRecord(k, sink_value, props) ==
    <<"Sink Input #" \o FormatUint(40 + k), "\tDriver: PipeWire", "\tSink: " \o sink_value,
      "\tProperties:">> \o StreamProps(k)[props]

RECURSIVE StreamListing(_, _)
StreamListing(n, f) ==
    IF n = 0 THEN <<>>
    ELSE StreamListing(n - 1, f) \o StreamRecord(n, f[n][1], f[n][2])

TwoSinks == SinkHeader("0", AnalogSink) \o SinkHeader("1", HdmiSink)

InitInputs ==
    /\ pc = INPUTS_CHECK_NAME
    /\ results = <<>>
    /\ report = None
    /\ extracted = None
    /\ \/ \E n \in 0..MaxStreams : \E f \in [1..n -> StreamSinkValues \X StreamPropChoices] :
              env = [QuietEnv EXCEPT !.inputs_default = Succeeded(<<AnalogSink>>),
                                     !.inputs_list = Succeeded(StreamListing(n, f)),
                                     !.inputs_sinks = Succeeded(TwoSinks)]
       \/ \E default \in {LaunchFailure, Succeeded(<<>>), Succeeded(<<HdmiSink>>)} :
          \E list \in {LaunchFailure, Succeeded(<<>>),
                       Succeeded(StreamRecord(1, "0", "app") \o StreamRecord(2, "1", "app"))} :
          \E sinks \in {LaunchFailure, Succeeded(TwoSinks)} :
              env = [QuietEnv EXCEPT !.inputs_default = default, !.inputs_list = list,
                                     !.inputs_sinks = sinks]

NextInputs == CheckSinkInputs

SpecInputs == InitInputs /\ [][NextInputs]_vars

(***************************************************************************)
(* check_default_sink over listings in the layout of `pactl list sinks`.   *)
(* The default sink's record varies in its name and description, its State *)
(* (value, presence, before or after the Name: line as pactl prints it),   *)
(* its ports (MaxPorts port lines, each available, not available or of     *)
(* unknown availability), its active port (one of the ports, or none) and  *)
(* the place of the Active Port: line (after the Ports: subsection as      *)
(* pactl prints it, or before).  It stands alone or next to another sink.  *)
(***************************************************************************)
MaxPorts == 2

UsbSink == "alsa_output.usb-Elgato_Capture.analog-stereo"

\* <<name, description>>; the last has "HDMI" in its description only.
SinkIdentities ==
    {<<HdmiSink, "HDMI / DisplayPort">>,
     <<AnalogSink, "Built-in Audio Analog Stereo">>,
     <<UsbSink, "USB HDMI Capture">>}

SinkStates == {"", "RUNNING", "SUSPENDED", "suspended"}

PortAvailabilities == {"available", "not available", "availability unknown"}

PortName(k) == "hdmi-output-" \o FormatUint(k - 1)

PortLine(k, availability) ==
    "\t\t" \o PortName(k) \o ": HDMI / DisplayPort (type: HDMI, priority: 5900, "
        \o availability \o ")"

OptionalLine(label, value) == IF value = "" THEN <<>> ELSE <<label \o value>>

\* c: [name, description, with_description, state, state_first, ports,
\*     active (0: no Active Port: line), active_first]
SinkRecord(index, c) ==
    LET state_line == OptionalLine("\tState: ", c.state)
        ports == <<"\tPorts:">> \o [k \in 1..Len(c.ports) |-> PortLine(k, c.ports[k])]
        active == IF c.active = 0 THEN <<>> ELSE <<"\tActive Port: " \o PortName(c.active)>>
    IN  <<"Sink #" \o index>>
        \o (IF c.state_first THEN state_line ELSE <<>>)
        \o <<"\tName: " \o c.name>>
        \o (IF c.with_description THEN <<"\tDescription: " \o c.description>> ELSE <<>>)
        \o (IF c.state_first THEN <<>> ELSE state_line)
        \o <<"\tMute: no">>
        \o (IF c.active_first THEN active \o ports ELSE ports \o active)
        \o <<"\tFormats:", "\t\tpcm">>

\* The neighbour: a monitor-less null sink with no ports.
NeighbourRecord(index, state) ==
    <<"Sink #" \o index, "\tState: " \o state, "\tName: null_sink",
      "\tDescription: Null Output", "\tMute: no">>

SinkListings(c) ==
    {SinkRecord("0", c)}
    \cup {NeighbourRecord("0", st) \o SinkRecord("1", c) : st \in {"RUNNING"}}
    \cup {SinkRecord("0", c) \o NeighbourRecord("1", st) : st \in {"RUNNING", "SUSPENDED"}}

\* The first port unplugged, the others plugged.
FirstPortUnplugged == [k \in 1..MaxPorts |-> IF k = 1 THEN "not available" ELSE "available"]

SinkEnv(c, listing) ==
    [QuietEnv EXCEPT !.sink_default = Succeeded(<<c.name>>), !.sink_sinks = Succeeded(listing)]

InitSink ==
    /\ pc = SINK_CHECK_NAME
    /\ results = <<>>
    /\ report = None
    /\ extracted = None
    /\ \/ \* every port configuration, for a sink with all its fields
          \E id \in SinkIdentities, ports \in [1..MaxPorts -> PortAvailabilities],
             active \in 0..MaxPorts, active_first \in BOOLEAN :
          LET c == [name |-> id[1], description |-> id[2], with_description |-> TRUE,
                    state |-> "RUNNING", state_first |-> FALSE, ports |-> ports,
                    active |-> active, active_first |-> active_first]
          IN  \E listing \in {SinkRecord("0", c),
                              SinkRecord("0", c) \o NeighbourRecord("1", "RUNNING")} :
                  env = SinkEnv(c, listing)
       \/ \* every field configuration, for a sink whose first port is unplugged
          \E id \in SinkIdentities, with_description \in BOOLEAN, state \in SinkStates,
             state_first \in BOOLEAN, active \in 0..1, active_first \in BOOLEAN :
          LET c == [name |-> id[1], description |-> id[2],
                    with_description |-> with_description,
                    state |-> state, state_first |-> state_first,
                    ports |-> FirstPortUnplugged,
                    active |-> active, active_first |-> active_first]
          IN  \E listing \in SinkListings(c) : env = SinkEnv(c, listing)
       \/ \* no default sink, no listing, no record of the default sink
          \E default \in {LaunchFailure, Succeeded(<<>>), Succeeded(<<HdmiSink>>),
                          CommandOutput(<<HdmiSink>>, "", FALSE)} :
          \E sinks \in {LaunchFailure, Succeeded(<<>>), Succeeded(NeighbourRecord("0", "RUNNING"))} :
              env = [QuietEnv EXCEPT !.sink_default = default, !.sink_sinks = sinks]

NextSink == CheckDefaultSink

SpecSink == InitSink /\ [][NextSink]_vars


(***************************************************************************)
(* Inputs of the bluetooth check: `pactl list cards` listings of up to     *)
(* MaxCards cards.                                                         *)
(***************************************************************************)
MaxCards == 2

BtProfiles == {"headset-head-unit", "a2dp-sink", "off"}

CardName(k) == "bluez_card.A" \o FormatUint(k)

CardSink(k) == "bluez_sink.A" \o FormatUint(k)

ProfileLine(profile) ==
    "\t\t" \o profile \o ": " \o ToUpper(profile) \o " (sinks: 1, sources: 0, priority: 40, available: yes)"

\* c: [name, description, profile, a2dp, sink ("": no Sinks: subsection),
\*     pactl_layout (Profiles:, Active Profile:, Ports: as pactl prints them;
\*     otherwise Active Profile: first and no Ports:)]
CardRecord(index, c) ==
    LET profiles == <<"\tProfiles:">>
                        \o (IF c.a2dp THEN <<ProfileLine("a2dp-sink")>> ELSE <<>>)
                        \o <<ProfileLine("headset-head-unit"), "\t\toff: Off (sinks: 0, sources: 0)">>
        active == <<"\tActive Profile: " \o c.profile>>
        ports == <<"\tPorts:", "\t\theadset-output: Headset (type: Headset, available)",
                   "\t\t\tPart of profile(s): headset-head-unit">>
    IN  <<"Card #" \o index, "\tName: " \o c.name, "\tDriver: module-bluez5-device.c",
          "\tProperties:", "\t\tdevice.description = \"" \o c.description \o "\"">>
        \o (IF c.pactl_layout THEN profiles \o active \o ports ELSE active \o profiles)
        \o (IF c.sink = "" THEN <<>> ELSE <<"\tSinks:", "\t\t" \o c.sink>>)

\* The neighbours of the first card: a sound card that is not bluetooth, a
\* bluetooth card in A2DP mode, a bluetooth card in call mode.
NeighbourCards(k) ==
    <<[name |-> "alsa_card.pci-0000_00_1f.3", description |-> "Built-in Audio",
       profile |-> "output:analog-stereo", a2dp |-> FALSE, sink |-> "", pactl_layout |-> TRUE],
      [name |-> CardName(k), description |-> "Speaker", profile |-> "a2dp-sink",
       a2dp |-> TRUE, sink |-> "", pactl_layout |-> TRUE],
      [name |-> CardName(k), description |-> "Car Kit", profile |-> "headset-head-unit",
       a2dp |-> FALSE, sink |-> "", pactl_layout |-> TRUE]>>

RECURSIVE CardListing(_, _)
CardListing(cards, k) ==
    IF k > Len(cards) THEN <<>>
    ELSE CardRecord(FormatUint(k - 1), cards[k]) \o CardListing(cards, k + 1)

\* Default sinks: none, a sink that is not bluetooth, one that holds the first
\* card's name, one that holds its sink entry, one that holds the second card's name.
BtDefaultSinks ==
    {<<>>, <<AnalogSink>>, <<CardName(1) \o ".1">>, <<CardSink(1) \o ".1">>,
     <<CardName(2) \o ".1">>}

InitBt ==
    /\ pc = BT_CHECK_NAME
    /\ results = <<>>
    /\ report = None
    /\ extracted = None
    /\ \/ \E profile \in BtProfiles, a2dp \in BOOLEAN, sink \in {"", CardSink(1)},
             pactl_layout \in BOOLEAN, n \in 0..(MaxCards - 1), default \in BtDefaultSinks :
          \E others \in [1..n -> 1..Len(NeighbourCards(1))] :
          LET first == [name |-> CardName(1), description |-> "WH-1000XM4",
                        profile |-> profile, a2dp |-> a2dp, sink |-> sink,
                        pactl_layout |-> pactl_layout]
              cards == <<first>> \o [k \in 1..n |-> NeighbourCards(k + 1)[others[k]]]
          IN  env = [QuietEnv EXCEPT !.bt_default = Succeeded(default),
                                     !.bt_cards = Succeeded(CardListing(cards, 1))]
       \/ \* no listing, no card, no bluetooth card
          \E default \in {LaunchFailure, Succeeded(<<CardName(1)>>)} :
          \E cards \in {LaunchFailure, Succeeded(<<>>),
                        Succeeded(CardRecord("0", NeighbourCards(1)[1])),
                        CommandOutput(<<>>, "Connection failure: Connection refused", FALSE)} :
              env = [QuietEnv EXCEPT !.bt_default = default, !.bt_cards = cards]

NextBt == CheckBluetoothProfile

SpecBt == InitBt /\ [][NextBt]_vars


(***************************************************************************)
(* Inputs of the audio-stack check: what `systemctl --user is-active` says *)
(* of the two services and what `pactl info` prints.                       *)
(***************************************************************************)
MaxInfoLines == 2

\* is-active prints the unit's state and exits 0 only for "active".
IsActiveOutputs ==
    {CommandOutput(<<"active">>, "", TRUE),
     CommandOutput(<<"inactive">>, "", FALSE),
     CommandOutput(<<"failed">>, "", FALSE)}

NoUserBus == CommandOutput(<<>>, "Failed to connect to bus: No medium found", FALSE)

\* Both calls run the same program: systemctl cannot be launched, or it cannot
\* reach the user's service manager, or each call prints a state.
SystemctlOutputs ==
    {<<LaunchFailure, LaunchFailure>>, <<NoUserBus, NoUserBus>>}
    \cup (IsActiveOutputs \X IsActiveOutputs)

InfoHead ==
    <<"Server String: /run/user/1000/pulse/native", "Library Protocol Version: 35",
      "Server Protocol Version: 35", "Is Local: yes", "Client Index: 97">>

\* "": pactl info prints no Server Name: line.
ServerNameLines ==
    {"", "Server Name: pulseaudio", "Server Name: PulseAudio (on PipeWire 0.3.65)",
     "Server Name:pipewire-0", "\tServer Name: PipeWire"}

PactlInfo(k, name_line) ==
    SubSeq(InfoHead, 1, k) \o OptionalLine("", name_line) \o <<"Server Version: 16.1">>

InitStack ==
    /\ pc = STACK_CHECK_NAME
    /\ results = <<>>
    /\ report = None
    /\ extracted = None
    /\ \E systemctl \in SystemctlOutputs :
          \/ \E k \in 0..MaxInfoLines, name_line \in ServerNameLines :
                 env = [QuietEnv EXCEPT !.stack_pipewire = systemctl[1],
                                        !.stack_wireplumber = systemctl[2],
                                        !.stack_pactl_info = Succeeded(PactlInfo(k, name_line))]
          \/ \E pactl \in {LaunchFailure,
                           CommandOutput(<<>>, "Connection failure: Connection refused", FALSE),
                           CommandOutput(PactlInfo(0, "Server Name: pulseaudio"), "", FALSE)} :
                 env = [QuietEnv EXCEPT !.stack_pipewire = systemctl[1],
                                        !.stack_wireplumber = systemctl[2],
                                        !.stack_pactl_info = pactl]

NextStack == CheckAudioStack

SpecStack == InitStack /\ [][NextStack]_vars



(***************************************************************************)
(* Inputs of the device-presence check: what `aplay -l` prints, in up to   *)
(* MaxAplayLines lines.                                                    *)
(***************************************************************************)
MaxAplayLines == 2

AplayLineMenu ==
    {"**** List of PLAYBACK Hardware Devices ****",
     "card 0: PCH [HDA Intel PCH], device 0: ALC3246 Analog [ALC3246 Analog]",
     "card 1: NVidia [HDA NVidia], device 3: HDMI 0 [HDMI 0]",
     "  Subdevices: 1/1",
     "  card 2: indented",
     "aplay: device_list:274: no soundcards found..."}

AplayStderrs ==
    {"", "aplay: device_list:274: no soundcards found...", "sh: 1: aplay: not found"}

LaunchErrors ==
    {"Failed to execute command: No such file or directory (os error 2)",
     "Failed to execute command: Permission denied (os error 13)"}

InitDevices ==
    /\ pc = DEVICES_CHECK_NAME
    /\ results = <<>>
    /\ report = None
    /\ extracted = None
    /\ \/ \E n \in 0..MaxAplayLines : \E f \in [1..n -> AplayLineMenu] :
          \E stderr \in AplayStderrs, success \in BOOLEAN :
              env = [QuietEnv EXCEPT !.devices_aplay = CommandOutput(f, stderr, success)]
       \/ \E stderr \in LaunchErrors :
              env = [QuietEnv EXCEPT !.devices_aplay = CommandOutput(<<>>, stderr, FALSE)]

NextDevices == CheckAudioDevices

SpecDevices == InitDevices /\ [][NextDevices]_vars


(***************************************************************************)
(* Inputs of the extractors: any text of up to MaxTextLines lines, with or *)
(* without boundary lines.                                                 *)
(***************************************************************************)
MaxTextLines == 2

TextLineMenu ==
    {"", "Sink #0", "\tName: " \o CardName(1), "\tSink: 0", "Sink Input #41",
     "\tState: SUSPENDED", "\tMute: yes",
     "\tVolume: front-left: 2621 /   4% / -83.87 dB", "\tActive Port: hdmi-output-0",
     "\tActive Profile: headset-head-unit", "\tProfiles:", ProfileLine("a2dp-sink"),
     "\tSinks:", "\t\t" \o CardSink(1), "\t\tapplication.name = \"mpv\""}

InitExtract ==
    /\ pc = "extract"
    /\ results = <<>>
    /\ report = None
    /\ extracted = None
    /\ \E n \in 0..MaxTextLines : \E text \in [1..n -> TextLineMenu] :
       \E target \in {<<>>, <<CardName(1)>>} :
           env = [QuietEnv EXCEPT !.bt_cards = Succeeded(text),
                                  !.inputs_list = Succeeded(text),
                                  !.inputs_sinks = Succeeded(text),
                                  !.sink_sinks = Succeeded(text),
                                  !.sink_default = Succeeded(target),
                                  !.mute_sinks = Succeeded(text),
                                  !.mute_default = Succeeded(target)]

NextExtract == ExtractListings

SpecExtract == InitExtract /\ [][NextExtract]_vars

(***************************************************************************)
(* The whole run: main calls run_all_checks, which runs the six checks in  *)
(* CheckOrder, and then build_report.  Every check asks pactl anew, and    *)
(* gets the same answers as long as the machine does not change.           *)
(***************************************************************************)
AplayOutputs ==
    {LaunchFailure,
     CommandOutput(<<>>, "aplay: device_list:274: no soundcards found...", FALSE),
     Succeeded(<<"**** List of PLAYBACK Hardware Devices ****",
                 "card 0: PCH [HDA Intel PCH], device 0: ALC3246 Analog [ALC3246 Analog]",
                 "  Subdevices: 1/1",
                 "card 1: NVidia [HDA NVidia], device 3: HDMI 0 [HDMI 0]">>),
     Succeeded(<<>>)}

\* The sink listings of the whole run: the built-in sink, then the HDMI sink.
RunSinkListings ==
    LET full == "\tVolume: front-left: 65536 / 100% / 0.00 dB,   front-right: 2621 /   4% / -83.87 dB"
        low == "\tVolume: front-left: 2621 /   4% / -83.87 dB,   front-right: 65536 / 100% / 0.00 dB"
        analog(fields) == SinkHeader("0", AnalogSink)
                              \o <<"\tDescription: Built-in Audio Analog Stereo">> \o fields
        hdmi(state, pactl_order) ==
            SinkRecord("1", [name |-> HdmiSink, description |-> "HDMI / DisplayPort",
                             with_description |-> TRUE, state |-> state,
                             state_first |-> pactl_order, ports |-> FirstPortUnplugged,
                             active |-> 1, active_first |-> ~pactl_order])
    IN  {analog(<<"\tMute: no", full>>) \o hdmi("RUNNING", TRUE),
         analog(<<"\tMute: yes", full>>) \o hdmi("SUSPENDED", FALSE),
         analog(<<"\tMute: no", low>>) \o hdmi("RUNNING", FALSE),
         analog(<<>>)}

\* What pactl answers: [default, sinks, inputs, cards].
PactlAnswers ==
    LET headset == CardRecord("0", [name |-> CardName(1), description |-> "WH-1000XM4",
                                    profile |-> "headset-head-unit", a2dp |-> TRUE,
                                    sink |-> "", pactl_layout |-> TRUE])
        streams == StreamRecord(1, "0", "app") \o StreamRecord(2, "1", "media")
    IN  {[default |-> LaunchFailure, sinks |-> LaunchFailure, inputs |-> LaunchFailure,
          cards |-> LaunchFailure],
         [default |-> Succeeded(<<AnalogSink>>),
          sinks |-> CommandOutput(<<>>, "Connection failure: Connection refused", FALSE),
          inputs |-> CommandOutput(<<>>, "Connection failure: Connection refused", FALSE),
          cards |-> CommandOutput(<<>>, "Connection failure: Connection refused", FALSE)]}
        \cup
        {[default |-> Succeeded(default), sinks |-> Succeeded(sinks),
          inputs |-> Succeeded(inputs), cards |-> Succeeded(cards)]
            : default \in {<<>>, <<AnalogSink>>, <<HdmiSink>>, <<CardName(1) \o ".1">>},
              sinks \in RunSinkListings,
              inputs \in {<<>>, streams},
              cards \in {<<>>, headset}}

\* What the two is-active calls answer in the whole run.
RunSystemctlOutputs ==
    {o \in SystemctlOutputs : \A k \in 1..2 : o[k] # NoUserBus /\ o[k].stdout # <<"failed">>}

Init ==
    /\ pc = CheckOrder[1]
    /\ results = <<>>
    /\ report = None
    /\ extracted = None
    /\ \E systemctl \in RunSystemctlOutputs, aplay \in AplayOutputs, pactl \in PactlAnswers :
       \E info \in IF pactl.default.success
                   THEN {Succeeded(PactlInfo(0, "Server Name: pulseaudio")),
                         Succeeded(PactlInfo(0, "Server Name: PulseAudio (on PipeWire 0.3.65)"))}
                   ELSE {LaunchFailure} :
           env = [stack_pipewire |-> systemctl[1], stack_wireplumber |-> systemctl[2],
                  stack_pactl_info |-> info, devices_aplay |-> aplay,
                  sink_default |-> pactl.default, sink_sinks |-> pactl.sinks,
                  mute_default |-> pactl.default, mute_sinks |-> pactl.sinks,
                  inputs_default |-> pactl.default, inputs_list |-> pactl.inputs,
                  inputs_sinks |-> pactl.sinks,
                  bt_default |-> pactl.default, bt_cards |-> pactl.cards]

Next ==
    \/ CheckAudioStack
    \/ CheckAudioDevices
    \/ CheckDefaultSink
    \/ CheckMuteState
    \/ CheckSinkInputs
    \/ CheckBluetoothProfile
    \/ BuildReport

Spec == Init /\ [][Next]_vars

(***************************************************************************)
(* Claims about build_report (checked under SpecReport).                   *)
(***************************************************************************)
Reported == pc = "done" /\ IsSome(report)

TheReport == Unwrap(report)

PositionsWith(status) == {i \in 1..Len(results) : results[i].status = status}

\* The k-th smallest member of a set of positions.
NthOf(S, k) == CHOOSE i \in S : Cardinality({j \in S : j < i}) = k - 1

FixOf(i) == results[i].message \o ": " \o results[i].suggestion[1]

FixPositions(status) == {i \in PositionsWith(status) : results[i].suggestion # <<>>}

\* C1: probable_cause is the message of the first outcome, in list order, whose
\* status is Error, whatever Warnings stand before or after it, and it is absent
\* exactly when the list holds no Error outcome.
C1_ProbableCauseIsFirstError ==
    Reported =>
        LET E == PositionsWith(StatusError)
        IN  /\ (E = {}) <=> (TheReport.probable_cause = <<>>)
            /\ E # {} => TheReport.probable_cause = <<results[MinOf(E)].message>>

\* A Warning stands before the first Error and a second Error with another
\* message stands after it.
C1_Witness ==
    /\ Reported
    /\ Len(results) = 3
    /\ results[1].status = StatusWarning
    /\ results[2].status = StatusError
    /\ results[3].status = StatusError
    /\ results[1].message # results[2].message
    /\ results[3].message # results[2].message
    /\ TheReport.probable_cause = <<results[2].message>>

\* C2: in suggested_fixes the entries of the Error outcomes come first, in input
\* order, one "<message>: <suggestion>" per Error; every later entry is the
\* "<message>: <suggestion>" of a Warning outcome, and these follow the input
\* order of the Warnings they first come from.
C2_ErrorsBeforeWarningsInOrder ==
    Reported =>
        LET fixes == TheReport.suggested_fixes
            EP == FixPositions(StatusError)
            WP == FixPositions(StatusWarning)
            nE == Cardinality(EP)
            FirstFrom(k) == MinOf({i \in WP : FixOf(i) = fixes[k]})
        IN  /\ Len(fixes) >= nE
            /\ \A k \in 1..nE : fixes[k] = FixOf(NthOf(EP, k))
            /\ \A k \in (nE + 1)..Len(fixes) : \E i \in WP : FixOf(i) = fixes[k]
            /\ \A k, l \in (nE + 1)..Len(fixes) : k < l => FirstFrom(k) < FirstFrom(l)

\* A Warning stands before an Error in the input and between two Warnings, and
\* all three contribute an entry.
C2_Witness ==
    /\ Reported
    /\ Len(results) = 3
    /\ results[1].status = StatusWarning
    /\ results[2].status = StatusError
    /\ results[3].status = StatusWarning
    /\ \A i \in 1..3 : results[i].suggestion # <<>>
    /\ TheReport.suggested_fixes = <<FixOf(2), FixOf(1), FixOf(3)>>
    /\ FixOf(1) # FixOf(3)

\* C3: only warning-derived fixes are deduplicated.  A fix string occurs in
\* suggested_fixes once per Error outcome that yields it, plus once more if no
\* Error yields it and at least one Warning does.
C3_OnlyWarningsDeduplicated ==
    Reported =>
        LET fixes == TheReport.suggested_fixes
            EP == FixPositions(StatusError)
            WP == FixPositions(StatusWarning)
            Occurrences(f) == Cardinality({k \in 1..Len(fixes) : fixes[k] = f})
            FromErrors(f) == Cardinality({i \in EP : FixOf(i) = f})
            FromWarnings(f) ==
                IF FromErrors(f) = 0 /\ (\E i \in WP : FixOf(i) = f) THEN 1 ELSE 0
        IN  /\ \A i \in EP \cup WP :
                 Occurrences(FixOf(i)) = FromErrors(FixOf(i)) + FromWarnings(FixOf(i))
            /\ \A k \in 1..Len(fixes) : \E i \in EP \cup WP : fixes[k] = FixOf(i)

\* Two Errors of different checks with the same fix string both appear, and two
\* Warnings of different checks with the same fix string appear once.
C3_Witness ==
    /\ Reported
    /\ Len(results) = 4
    /\ results[1].status = StatusWarning
    /\ results[2].status = StatusError
    /\ results[3].status = StatusWarning
    /\ results[4].status = StatusError
    /\ \A i \in 1..4 : results[i].suggestion # <<>>
    /\ FixOf(2) = FixOf(4)
    /\ FixOf(1) = FixOf(3)
    /\ FixOf(1) # FixOf(2)
    /\ results[2].message # results[4].message
    /\ TheReport.suggested_fixes = <<FixOf(2), FixOf(4), FixOf(1)>>

EndsWith(s, p) == Len(p) <= Len(s) /\ SubSeq(s, Len(s) - Len(p) + 1, Len(s)) = p

\* C4: build_report yields a report for every input list.  The summary is the
\* healthy message exactly when the list has neither Error nor Warning; otherwise
\* it states the number of Warnings, and with an Error also the number of Errors,
\* and it names the probable cause exactly when an Error exists.
C4_SummaryCountsAndCause ==
    pc = "done" =>
        /\ IsSome(report)
        /\ LET nE == Cardinality(PositionsWith(StatusError))
               nW == Cardinality(PositionsWith(StatusWarning))
               summary == TheReport.summary
           IN  /\ (summary = HealthySummary) <=> (nE = 0 /\ nW = 0)
               /\ nE + nW > 0 => Contains(summary, FormatUint(nW) \o " warning(s)")
               /\ nE > 0 => Contains(summary, "Found " \o FormatUint(nE) \o " error(s)")
               /\ nE > 0 =>
                      EndsWith(summary, "Most likely cause: "
                                   \o results[MinOf(PositionsWith(StatusError))].message)
               /\ nE = 0 => ~Contains(summary, "Most likely cause")

\* An all-Error list and an all-Warning list of full length, and the empty list.
C4_Witness ==
    /\ Reported
    /\ Len(results) = 3
    /\ PositionsWith(StatusError) = {1}
    /\ PositionsWith(StatusWarning) = {2, 3}
    /\ Contains(TheReport.summary, "Found 1 error(s) and 2 warning(s)")

(***************************************************************************)
(* Claims about the mute-state check (checked under SpecMute).             *)
(***************************************************************************)
HasOutcome(name) == \E i \in 1..Len(results) : results[i].name = name

Outcome(name) == results[CHOOSE i \in 1..Len(results) : results[i].name = name]

\* The listing as text, read without the scanner: line i lies in the record of
\* the sink named by the last Name: line at or before it.
MuteLines == env.mute_sinks.stdout

MuteTarget == Trim(Text(env.mute_default.stdout))

FieldValue(line, label) == Trim(StripPrefix(Trim(line), label))

IsField(line, label) == StartsWith(Trim(line), label)

InRecordOf(lines, i, sink) ==
    LET names == {j \in 1..i : IsField(lines[j], "Name:")}
    IN  names # {} /\ FieldValue(lines[MaxOf(names)], "Name:") = sink

TargetMuteLines == {i \in 1..Len(MuteLines) :
                       InRecordOf(MuteLines, i, MuteTarget) /\ IsField(MuteLines[i], "Mute:")}

TargetVolumeLines == {i \in 1..Len(MuteLines) :
                       InRecordOf(MuteLines, i, MuteTarget) /\ IsField(MuteLines[i], "Volume:")}

MuteChecked ==
    /\ HasOutcome(MUTE_CHECK_NAME)
    /\ MuteTarget # ""
    /\ env.mute_sinks.success

DigitsBefore(line, p) ==
    LET runs == {k \in 1..(p - 1) : \A j \in (p - k)..(p - 1) : IsAsciiDigit(CharAt(line, j))}
    IN  IF runs = {} THEN "" ELSE SubSeq(line, p - MaxOf(runs), p - 1)

\* The percentage the first Volume: line of the default sink's record states.
FirstVolumeLine == MuteLines[MinOf(TargetVolumeLines)]

FirstVolumeDigits == DigitsBefore(FirstVolumeLine, Find(FirstVolumeLine, "%"))

UnmutedWithVolume ==
    /\ MuteChecked
    /\ TargetMuteLines # {}
    /\ \A i \in TargetMuteLines : FieldValue(MuteLines[i], "Mute:") = "no"
    /\ TargetVolumeLines # {}
    /\ Find(FirstVolumeLine, "%") # 0
    /\ FirstVolumeDigits # ""

\* C6: with `Mute: no` and a Volume: line in the default sink's record, the
\* integer before the first '%' of the first Volume: line decides: 0..4 gives
\* Warning (very low volume), 5..100 gives Ok carrying that percentage.
C6_VolumeBoundary ==
    UnmutedWithVolume =>
        LET vol == DecimalValue(FirstVolumeDigits)
            outcome == Outcome(MUTE_CHECK_NAME)
        IN  /\ vol \in 0..4 =>
                 /\ outcome.status = StatusWarning
                 /\ outcome.message = "Volume is very low (" \o FormatUint(vol) \o "%)"
            /\ vol \in 5..100 =>
                 /\ outcome.status = StatusOk
                 /\ outcome.message = "Output is not muted (volume: " \o FormatUint(vol) \o "%)"

\* The first Volume: line states 4% and then 100%, and a later one states 5%.
C6_Witness ==
    /\ UnmutedWithVolume
    /\ DecimalValue(FirstVolumeDigits) = 4
    /\ Contains(FirstVolumeLine, "100%")
    /\ \E v \in TargetVolumeLines : Contains(MuteLines[v], "  5%")
    /\ Outcome(MUTE_CHECK_NAME).status = StatusWarning

\* The companion case on the other side of the boundary.
C6_WitnessAtFive ==
    /\ UnmutedWithVolume
    /\ DecimalValue(FirstVolumeDigits) = 5
    /\ Outcome(MUTE_CHECK_NAME).status = StatusOk

(***************************************************************************)
(* Claims about the stream-routing check (checked under SpecInputs).       *)
(***************************************************************************)
InputLines == env.inputs_list.stdout

InputsDefault == Trim(Text(env.inputs_default.stdout))

\* The stream records of the listing: one per `Sink Input #` heading, reaching
\* to the line before the next heading.
StreamHeads == {h \in 1..Len(InputLines) : StartsWith(InputLines[h], "Sink Input #")}

StreamSpan(h) ==
    {i \in h..Len(InputLines) : \A g \in StreamHeads : g > h => i < g}

\* The value of the first line of the span that has the label, "" if none has.
SpanValue(lines, span, label) ==
    LET hits == {i \in span : IsField(lines[i], label)}
    IN  IF hits = {} THEN "" ELSE FieldValue(lines[MinOf(hits)], label)

\* The name the sinks listing gives the sink with this index: the Name: field of
\* the record headed `Sink #<index>`, "" if there is no such record.
SinkNameOfIndex(index) ==
    LET lines == env.inputs_sinks.stdout
        heads == {h \in 1..Len(lines) : StartsWith(lines[h], "Sink #")}
        mine == {h \in heads : lines[h] = "Sink #" \o index}
        span(h) == {i \in h..Len(lines) : \A g \in heads : g > h => i < g}
    IN  IF mine = {} \/ index = "" THEN "" ELSE SpanValue(lines, span(MinOf(mine)), "Name:")

StreamSinkName(h) == SinkNameOfIndex(SpanValue(InputLines, StreamSpan(h), "Sink:"))

\* The stream's application name as the report names it: its application.name
\* property, else its media.name property, else Unknown.
StreamAppName(h) ==
    LET app == TrimQuotes(SpanValue(InputLines, StreamSpan(h), "application.name = "))
        media == TrimQuotes(SpanValue(InputLines, StreamSpan(h), "media.name = "))
    IN  IF app # "" THEN app ELSE IF media # "" THEN media ELSE "Unknown"

MisroutedHeads ==
    {h \in StreamHeads : StreamSinkName(h) # "" /\ StreamSinkName(h) # InputsDefault}

MisroutedEntries ==
    [k \in 1..Cardinality(MisroutedHeads) |->
        "'" \o StreamAppName(NthOf(MisroutedHeads, k)) \o "' is playing to '"
            \o StreamSinkName(NthOf(MisroutedHeads, k)) \o "'"]

InputsChecked ==
    /\ HasOutcome(INPUTS_CHECK_NAME)
    /\ InputsDefault # ""
    /\ env.inputs_list.success

\* C7: with a default sink name and a successful sink-inputs listing: no stream
\* record gives Ok "no active streams"; N >= 1 stream records all resolving to the
\* default sink give Ok stating N; a stream resolving to another, non-empty sink
\* name gives Warning whose message counts and lists exactly those streams, in
\* stream order, each with its application name and resolved sink name.
C7_StreamRouting ==
    InputsChecked =>
        LET outcome == Outcome(INPUTS_CHECK_NAME)
            n == Cardinality(StreamHeads)
        IN  /\ n = 0 =>
                 /\ outcome.status = StatusOk
                 /\ outcome.message = "No active audio streams (nothing playing)"
            /\ (n >= 1 /\ \A h \in StreamHeads : StreamSinkName(h) = InputsDefault) =>
                 /\ outcome.status = StatusOk
                 /\ outcome.message = FormatUint(n) \o " active stream(s) correctly routed"
            /\ MisroutedHeads # {} =>
                 /\ outcome.status = StatusWarning
                 /\ outcome.message =
                        FormatUint(Cardinality(MisroutedHeads))
                            \o " stream(s) playing to non-default output: "
                            \o Join(MisroutedEntries, ", ")

\* Three kinds of stream at once would need three records; here the first stream
\* is bound to a sink index no sink has and the second plays to the other sink.
C7_Witness ==
    /\ InputsChecked
    /\ Cardinality(StreamHeads) = 2
    /\ StreamSinkName(NthOf(StreamHeads, 1)) = ""
    /\ SpanValue(InputLines, StreamSpan(NthOf(StreamHeads, 1)), "Sink:") = "7"
    /\ MisroutedHeads = {NthOf(StreamHeads, 2)}
    /\ Outcome(INPUTS_CHECK_NAME).message
           = "1 stream(s) playing to non-default output: 'mpv' is playing to '"
                 \o HdmiSink \o "'"

\* Companion cases: two misrouted streams listed in order; two streams both on
\* the default sink.
C7_WitnessTwoMisrouted ==
    /\ InputsChecked
    /\ Cardinality(MisroutedHeads) = 2
    /\ Outcome(INPUTS_CHECK_NAME).message
           = "2 stream(s) playing to non-default output: 'Firefox' is playing to '"
                 \o HdmiSink \o "', 'mpv' is playing to '" \o HdmiSink \o "'"

C7_WitnessAllRouted ==
    /\ InputsChecked
    /\ Cardinality(StreamHeads) = 2
    /\ \A h \in StreamHeads : StreamSinkName(h) = InputsDefault
    /\ Outcome(INPUTS_CHECK_NAME).message = "2 active stream(s) correctly routed"

(***************************************************************************)
(* Claims about the default-sink check (checked under SpecSink).           *)
(***************************************************************************)
SinkLines == env.sink_sinks.stdout

SinkTarget == Trim(Text(env.sink_default.stdout))

\* The sink records of the listing: one per `Sink #` heading.
SinkHeads == {h \in 1..Len(SinkLines) : StartsWith(SinkLines[h], "Sink #")}

SinkSpan(h) == {i \in h..Len(SinkLines) : \A g \in SinkHeads : g > h => i < g}

TargetHeads == {h \in SinkHeads : SpanValue(SinkLines, SinkSpan(h), "Name:") = SinkTarget}

TargetSpan == SinkSpan(MinOf(TargetHeads))

OwnState == SpanValue(SinkLines, TargetSpan, "State:")

OwnActivePort == SpanValue(SinkLines, TargetSpan, "Active Port:")

\* The lines of the record's Ports: subsection that name the active port.
ActivePortLines ==
    {i \in TargetSpan : OwnActivePort # "" /\ StartsWith(Trim(SinkLines[i]), OwnActivePort \o ":")}

SinkChecked ==
    /\ HasOutcome(SINK_CHECK_NAME)
    /\ env.sink_default.success
    /\ SinkTarget # ""
    /\ env.sink_sinks.success
    /\ TargetHeads # {}

\* C8: for a default sink whose name contains "hdmi" and whose State is not
\* suspended, the availability marked on the Ports: line of the sink's active
\* port decides: `not available` gives Error (HDMI disconnected), `available`
\* gives Ok, whatever the order of the Ports: subsection and the Active Port:
\* line and whatever the other port lines say.
C8_ActivePortAvailabilityDecides ==
    ( /\ SinkChecked
      /\ Contains(ToLower(SinkTarget), "hdmi")
      /\ ToUpper(OwnState) # "SUSPENDED"
      /\ ActivePortLines # {} )
    => LET line == SinkLines[MinOf(ActivePortLines)]
           outcome == Outcome(SINK_CHECK_NAME)
       IN  /\ Contains(line, "not available") =>
                /\ outcome.status = StatusError
                /\ Contains(outcome.message, "HDMI")
                /\ Contains(outcome.message, "disconnected")
           /\ (~Contains(line, "not available") /\ Contains(line, "available")) =>
                outcome.status = StatusOk

\* The same statement for the records whose Active Port: line stands before the
\* Ports: subsection and which the listing holds alone.
ActivePortFirstDecides ==
    ( /\ SinkChecked
      /\ Contains(ToLower(SinkTarget), "hdmi")
      /\ ToUpper(OwnState) # "SUSPENDED"
      /\ ActivePortLines # {}
      /\ Cardinality(SinkHeads) = 1
      /\ \E a \in TargetSpan : /\ IsField(SinkLines[a], "Active Port:")
                               /\ a < MinOf(ActivePortLines) )
    => LET line == SinkLines[MinOf(ActivePortLines)]
           outcome == Outcome(SINK_CHECK_NAME)
       IN  /\ Contains(line, "not available") => outcome.status = StatusError
           /\ (~Contains(line, "not available") /\ Contains(line, "available")) =>
                outcome.status = StatusOk

(***************************************************************************)
(* Claims about the bluetooth check (checked under SpecBt).                *)
(***************************************************************************)
BtLines == env.bt_cards.stdout

BtDefault == Trim(Text(env.bt_default.stdout))

\* The card records of the listing: one per `Card #` heading.
CardHeads == {h \in 1..Len(BtLines) : StartsWith(BtLines[h], "Card #")}

CardSpan(h) == {i \in h..Len(BtLines) : \A g \in CardHeads : g > h => i < g}

\* The entries of a subsection of a card: the lines that follow the header and
\* are indented deeper than it.
Subsection(h, header) ==
    {i \in CardSpan(h) :
        \E p \in CardSpan(h) :
            /\ IsField(BtLines[p], header)
            /\ p < i
            /\ \A j \in (p + 1)..i : StartsWith(BtLines[j], "\t\t")}

CardNameOf(h) == SpanValue(BtLines, CardSpan(h), "Name:")

IsBluetoothHead(h) == Contains(CardNameOf(h), "bluez") \/ Contains(CardNameOf(h), "bluetooth")

\* The default sink references the card: it holds the card's name or one of
\* the entries of the card's Sinks: subsection.
References(h) ==
    \/ CardNameOf(h) # "" /\ Contains(BtDefault, CardNameOf(h))
    \/ \E i \in Subsection(h, "Sinks:") : Contains(BtDefault, Trim(BtLines[i]))

InCallModeWithA2dp(h) ==
    /\ IsBluetoothHead(h)
    /\ SpanValue(BtLines, CardSpan(h), "Active Profile:") = "headset-head-unit"
    /\ \E i \in Subsection(h, "Profiles:") : IsField(BtLines[i], "a2dp-sink:")

BtChecked == HasOutcome(BT_CHECK_NAME) /\ env.bt_cards.success

\* C9: with a successful card listing that has a bluetooth card in
\* headset-head-unit mode whose Profiles: subsection lists a2dp-sink, the
\* outcome is Error, naming "call/headset mode" and "A2DP available", when the
\* default sink references that card, and Warning when the default sink
\* references no bluetooth card.
C9_CallModeOutcome ==
    BtChecked =>
        \A h \in CardHeads :
            InCallModeWithA2dp(h) =>
                /\ References(h) =>
                       /\ Outcome(BT_CHECK_NAME).status = StatusError
                       /\ Contains(Outcome(BT_CHECK_NAME).message, "call/headset mode")
                       /\ Contains(Outcome(BT_CHECK_NAME).message, "A2DP available")
                /\ (\A g \in CardHeads : IsBluetoothHead(g) => ~References(g)) =>
                       Outcome(BT_CHECK_NAME).status = StatusWarning

\* The call-mode card is the default output, by name.
C9_Witness ==
    /\ BtChecked
    /\ \E h \in CardHeads : InCallModeWithA2dp(h) /\ Contains(BtDefault, CardNameOf(h))
    /\ Outcome(BT_CHECK_NAME).status = StatusError

\* The call-mode card is the default output, by an entry of its Sinks: subsection.
C9_WitnessBySinkEntry ==
    /\ BtChecked
    /\ \E h \in CardHeads :
           /\ InCallModeWithA2dp(h)
           /\ ~Contains(BtDefault, CardNameOf(h))
           /\ References(h)
    /\ Outcome(BT_CHECK_NAME).status = StatusError

\* The call-mode card is connected while the default output is not bluetooth.
C9_WitnessNotActive ==
    /\ BtChecked
    /\ BtDefault # ""
    /\ \E h \in CardHeads : InCallModeWithA2dp(h)
    /\ \A g \in CardHeads : IsBluetoothHead(g) => ~References(g)
    /\ Outcome(BT_CHECK_NAME).status = StatusWarning

(***************************************************************************)
(* Claims about the audio-stack check (checked under SpecStack).           *)
(***************************************************************************)
PipewireReportedActive == Trim(Text(env.stack_pipewire.stdout)) = "active"

WireplumberReportedActive == Trim(Text(env.stack_wireplumber.stdout)) = "active"

IsFallbackOutcome(outcome) ==
    /\ outcome.status = StatusOk
    /\ Contains(outcome.message, "legacy mode") \/ Contains(outcome.message, "socket-activated")

\* C10: the Ok outcomes "legacy mode" and "socket-activated" are returned only
\* when neither pipewire nor wireplumber is reported active and `pactl info`
\* succeeded; in particular never while wireplumber is reported active.
C10_FallbackOnlyWhenNeitherActive ==
    (HasOutcome(STACK_CHECK_NAME) /\ IsFallbackOutcome(Outcome(STACK_CHECK_NAME)))
    => /\ ~PipewireReportedActive
       /\ ~WireplumberReportedActive
       /\ env.stack_pactl_info.success

\* What the branches do test: pipewire not active and `pactl info` succeeded.
FallbackOnlyWhenPipewireInactive ==
    (HasOutcome(STACK_CHECK_NAME) /\ IsFallbackOutcome(Outcome(STACK_CHECK_NAME)))
    => /\ ~PipewireReportedActive
       /\ env.stack_pactl_info.success

(***************************************************************************)
(* The decision order of the default-sink check (checked under SpecSink).  *)
(***************************************************************************)
OwnDescription == SpanValue(SinkLines, TargetSpan, "Description:")

\* The record of the default sink marks the sink's active port `not available`.
OwnPortUnavailable ==
    \/ Contains(ToLower(OwnActivePort), "unavailable")
    \/ /\ ActivePortLines # {}
       /\ Contains(SinkLines[MinOf(ActivePortLines)], "not available")

\* The statuses the ordered conditions allow, read off the commands' output; a
\* record that names no active port leaves the fifth condition open.
DefaultSinkStatusByOrder ==
    IF ~env.sink_default.success THEN {StatusError}
    ELSE IF SinkTarget = "" THEN {StatusError}
    ELSE IF TargetHeads = {} THEN {StatusError}
    ELSE IF ToUpper(OwnState) = "SUSPENDED" THEN {StatusWarning}
    ELSE IF ~(\/ Contains(ToLower(SinkTarget), "hdmi")
              \/ Contains(ToLower(OwnDescription), "hdmi"))
    THEN {StatusOk}
    ELSE IF OwnActivePort = "" THEN {StatusError, StatusOk}
    ELSE IF OwnPortUnavailable THEN {StatusError}
    ELSE {StatusOk}

\* C11: the default-sink check returns the outcome of the first condition that
\* matches, in the order lookup failed (Error), name empty (Error), sink absent
\* from the records (Error), state suspended (Warning), HDMI with its active
\* port unavailable (Error), otherwise Ok; and no other outcome.
C11_FirstMatchingCondition ==
    HasOutcome(SINK_CHECK_NAME) =>
        Outcome(SINK_CHECK_NAME).status \in DefaultSinkStatusByOrder

\* The same order, over what the check works with: the answers of the two
\* calls and the fields parse_sink_info hands it, with the Warning of a failed
\* listing call in its place.
DefaultSinkDecisionOrder ==
    HasOutcome(SINK_CHECK_NAME) =>
        LET found == parse_sink_info(SinkLines, SinkTarget)
            info == Unwrap(found)
            status == Outcome(SINK_CHECK_NAME).status
        IN  IF ~env.sink_default.success THEN status = StatusError
            ELSE IF SinkTarget = "" THEN status = StatusError
            ELSE IF ~env.sink_sinks.success THEN status = StatusWarning
            ELSE IF ~IsSome(found) THEN status = StatusError
            ELSE IF ToUpper(info.state) = "SUSPENDED" THEN status = StatusWarning
            ELSE IF /\ \/ Contains(ToLower(info.name), "hdmi")
                       \/ Contains(ToLower(info.description), "hdmi")
                    /\ \/ Contains(ToLower(info.active_port), "unavailable")
                       \/ info.port_availability = "not available"
            THEN status = StatusError
            ELSE status = StatusOk

(***************************************************************************)
(* Claims about the device-presence check (checked under SpecDevices).     *)
(***************************************************************************)
Aplay == env.devices_aplay

\* aplay could not be run because it is missing.
AplayMissing ==
    /\ ~Aplay.success
    /\ Contains(Aplay.stderr, "not found") \/ Contains(Aplay.stderr, "No such file")

CardLines == {i \in 1..Len(Aplay.stdout) : StartsWith(Aplay.stdout[i], "card ")}

ReportsNoCards ==
    \/ Contains(Aplay.stderr, "no soundcards found")
    \/ \E i \in 1..Len(Aplay.stdout) : Contains(Aplay.stdout[i], "no soundcards found")

\* C12: the device-presence check gives Warning when aplay is missing; else
\* Error when the listing reports no sound cards or no stdout line starts with
\* `card `; else Ok with a message that carries the number of stdout lines
\* starting with `card `, which is at least 1.
C12_DevicePresenceOrder ==
    HasOutcome(DEVICES_CHECK_NAME) =>
        LET outcome == Outcome(DEVICES_CHECK_NAME)
        IN  IF AplayMissing THEN outcome.status = StatusWarning
            ELSE IF ReportsNoCards \/ CardLines = {} THEN outcome.status = StatusError
            ELSE /\ outcome.status = StatusOk
                 /\ Cardinality(CardLines) >= 1
                 /\ StartsWith(outcome.message, FormatUint(Cardinality(CardLines)) \o " ")

\* Two cards are listed and counted.
C12_Witness ==
    /\ HasOutcome(DEVICES_CHECK_NAME)
    /\ Cardinality(CardLines) = 2
    /\ Outcome(DEVICES_CHECK_NAME).status = StatusOk
    /\ StartsWith(Outcome(DEVICES_CHECK_NAME).message, "2 ")

\* aplay is missing and the listing reports no sound cards: Warning wins.
C12_WitnessMissingFirst ==
    /\ HasOutcome(DEVICES_CHECK_NAME)
    /\ AplayMissing
    /\ ReportsNoCards
    /\ Outcome(DEVICES_CHECK_NAME).status = StatusWarning

\* The only line that mentions a card does not start with `card `: Error.
C12_WitnessIndentedCard ==
    /\ HasOutcome(DEVICES_CHECK_NAME)
    /\ ~AplayMissing
    /\ CardLines = {}
    /\ \E i \in 1..Len(Aplay.stdout) : Contains(Aplay.stdout[i], "card ")
    /\ Outcome(DEVICES_CHECK_NAME).status = StatusError

(***************************************************************************)
(* Claims about the whole run (checked under Spec).                        *)
(***************************************************************************)
FixedOrder ==
    <<"audio_stack", "audio_devices", "default_sink",
      "mute_state", "sink_inputs", "bluetooth_profile">>

\* C13: a run produces exactly six outcomes, one per check, in the order
\* audio_stack, audio_devices, default_sink, mute_state, sink_inputs,
\* bluetooth_profile; the names are pairwise distinct, every outcome carries
\* the name of its check on every return path, and the report holds the list
\* unchanged.
C13_SixOutcomesInFixedOrder ==
    /\ \A i, j \in 1..Len(FixedOrder) : i # j => FixedOrder[i] # FixedOrder[j]
    /\ Len(results) <= Len(FixedOrder)
    /\ \A i \in 1..Len(results) : results[i].name = FixedOrder[i]
    /\ pc \in {"report", "done"} => Len(results) = Len(FixedOrder)
    /\ pc = "done" => Reported /\ TheReport.checks = results

\* A finished run in which three checks returned early: no sink listing.
C13_Witness ==
    /\ Reported
    /\ Len(TheReport.checks) = 6
    /\ TheReport.checks[3].message = "Cannot list sinks"
    /\ TheReport.checks[4].message = "Cannot check mute state"
    /\ TheReport.checks[6].message = "No Bluetooth audio issues (cannot list cards)"

\* A finished run in which every check ran to its last return.
C13_WitnessAllOk ==
    /\ Reported
    /\ \A i \in 1..6 : TheReport.checks[i].status = StatusOk
    /\ Len(TheReport.checks) = 6

(***************************************************************************)
(* Missing fields (checked under SpecSink; the conjuncts about the other   *)
(* checks speak of SpecMute, SpecBt and SpecInputs).                       *)
(***************************************************************************)
LacksField(lines, span, label) == \A i \in span : ~IsField(lines[i], label)

\* The default sink's record is there and lacks State:, Description: or Active Port:.
SinkRecordLacksField ==
    /\ SinkChecked
    /\ \E label \in {"State:", "Description:", "Active Port:"} :
           LacksField(SinkLines, TargetSpan, label)

\* The target sink's record is there and lacks Mute:, or says `Mute: no` and
\* has no Volume: line with a percentage.
MuteRecordLacksField ==
    /\ MuteChecked
    /\ \E i \in 1..Len(MuteLines) : InRecordOf(MuteLines, i, MuteTarget)
    /\ \/ TargetMuteLines = {}
       \/ /\ \A i \in TargetMuteLines : FieldValue(MuteLines[i], "Mute:") = "no"
          /\ \A v \in TargetVolumeLines :
                 DigitsBefore(MuteLines[v], Find(MuteLines[v], "%")) = ""

\* A bluetooth card's record lacks Active Profile:.
CardRecordLacksProfile ==
    /\ BtChecked
    /\ \E h \in CardHeads :
           IsBluetoothHead(h) /\ LacksField(BtLines, CardSpan(h), "Active Profile:")

\* A stream's sink index has no entry in the sinks listing.
StreamLacksSinkName ==
    /\ InputsChecked
    /\ \E h \in StreamHeads : StreamSinkName(h) = ""

\* C14: when a check's target record is present but lacks an expected field,
\* the check's outcome is Warning, never Ok and never Error.
C14_MissingFieldIsWarning ==
    /\ SinkRecordLacksField => Outcome(SINK_CHECK_NAME).status = StatusWarning
    /\ MuteRecordLacksField => Outcome(MUTE_CHECK_NAME).status = StatusWarning
    /\ CardRecordLacksProfile => Outcome(BT_CHECK_NAME).status = StatusWarning
    /\ StreamLacksSinkName => Outcome(INPUTS_CHECK_NAME).status = StatusWarning

(***************************************************************************)
(* Commands that cannot be launched (checked under Spec).                  *)
(***************************************************************************)
NotLaunched(output) == ~output.success /\ output.stdout = <<>> /\ output.stderr # ""

\* The calls each check makes.
CallsOf(name) ==
    CASE name = STACK_CHECK_NAME ->
             {env.stack_pipewire, env.stack_wireplumber, env.stack_pactl_info}
      [] name = DEVICES_CHECK_NAME -> {env.devices_aplay}
      [] name = SINK_CHECK_NAME -> {env.sink_default, env.sink_sinks}
      [] name = MUTE_CHECK_NAME -> {env.mute_default, env.mute_sinks}
      [] name = INPUTS_CHECK_NAME -> {env.inputs_default, env.inputs_list, env.inputs_sinks}
      [] name = BT_CHECK_NAME -> {env.bt_default, env.bt_cards}

\* C15: a check none of whose commands can be launched still returns an
\* outcome, and the outcome is Warning or Error, never Ok; the run still
\* yields six outcomes and a report.
C15_LaunchFailureIsSurfaced ==
    /\ \A i \in 1..Len(results) :
           (\A call \in CallsOf(results[i].name) : NotLaunched(call))
               => results[i].status \in {StatusWarning, StatusError}
    /\ pc = "done" => Len(results) = 6 /\ IsSome(report)

(***************************************************************************)
(* Repeated field labels (checked under SpecMute; the conjuncts about the  *)
(* other extractors speak of SpecSink, SpecBt and SpecInputs).             *)
(***************************************************************************)
\* The lines of the record the Name: line of `sink` opens.
RecordOf(lines, sink) == {i \in 1..Len(lines) : InRecordOf(lines, i, sink)}

FirstValueIs(lines, span, label, value) ==
    LacksField(lines, span, label) \/ SpanValue(lines, span, label) = value

SinkFieldsFirstWin ==
    LET found == parse_sink_info(SinkLines, SinkTarget)
        record == RecordOf(SinkLines, SinkTarget)
    IN  IsSome(found) =>
            /\ FirstValueIs(SinkLines, record, "Description:", Unwrap(found).description)
            /\ FirstValueIs(SinkLines, record, "State:", Unwrap(found).state)
            /\ FirstValueIs(SinkLines, record, "Active Port:", Unwrap(found).active_port)

MuteFieldsFirstWin ==
    LET found == parse_mute_and_volume(MuteLines, MuteTarget)
    IN  /\ TargetMuteLines # {} =>
               found.muted = Some(EqIgnoreAsciiCase(
                                 FieldValue(MuteLines[MinOf(TargetMuteLines)], "Mute:"), "yes"))
        /\ (TargetVolumeLines # {} /\ FirstVolumeDigits # "" /\ Find(FirstVolumeLine, "%") # 0)
               => found.volume = ParseU32(FirstVolumeDigits)

CardFieldsFirstWin ==
    LET found == parse_bluetooth_cards(BtLines)
    IN  \A k \in 1..Len(found) :
            LET record == RecordOf(BtLines, found[k].name)
            IN  /\ FirstValueIs(BtLines, record, "Active Profile:", found[k].active_profile)
                /\ \/ LacksField(BtLines, record, "device.description = ")
                   \/ TrimQuotes(SpanValue(BtLines, record, "device.description = "))
                          = found[k].description

StreamFieldsFirstWin ==
    LET found == parse_sink_inputs(InputLines)
    IN  Len(found) = Cardinality(StreamHeads) =>
            \A k \in 1..Len(found) :
                LET span == StreamSpan(NthOf(StreamHeads, k))
                IN  \/ LacksField(InputLines, span, "application.name = ")
                    \/ TrimQuotes(SpanValue(InputLines, span, "application.name = "))
                           = found[k].app_name

\* C16: when a record holds a field label more than once, every extractor
\* returns the value of the first occurrence; later occurrences never
\* overwrite it.
C16_FirstOccurrenceWins ==
    (pc = "report" \/ HasOutcome(SINK_CHECK_NAME) \/ HasOutcome(MUTE_CHECK_NAME)
        \/ HasOutcome(BT_CHECK_NAME) \/ HasOutcome(INPUTS_CHECK_NAME))
    => /\ SinkFieldsFirstWin
       /\ MuteFieldsFirstWin
       /\ CardFieldsFirstWin
       /\ StreamFieldsFirstWin

(***************************************************************************)
(* Texts without boundary lines (checked under SpecExtract).               *)
(***************************************************************************)
NoBoundary(lines, label) == \A i \in 1..Len(lines) : ~IsField(lines[i], label)

\* C17: on a text none of whose lines is a boundary line, every extractor
\* ends with an empty result: no card and no stream without a `Name:` /
\* `Sink:` line, no map entry without a `Sink #` line, no sink record and no
\* mute flag or volume without a `Name:` line.
C17_NoBoundaryNoRecord ==
    IsSome(extracted) =>
        LET found == Unwrap(extracted)
        IN  /\ NoBoundary(env.bt_cards.stdout, "Name:") => found.cards = <<>>
            /\ NoBoundary(env.inputs_list.stdout, "Sink:") => found.inputs = <<>>
            /\ NoBoundary(env.inputs_sinks.stdout, "Sink #") => found.sink_map = <<>>
            /\ NoBoundary(env.sink_sinks.stdout, "Name:") => found.sink_info = None
            /\ NoBoundary(env.mute_sinks.stdout, "Name:") =>
                   found.mute_and_volume = [muted |-> None, volume |-> None]

\* A text of field lines and no boundary line of any kind.
C17_Witness ==
    /\ IsSome(extracted)
    /\ Len(env.bt_cards.stdout) = 2
    /\ IsField(env.bt_cards.stdout[1], "Profiles:")
    /\ IsField(env.bt_cards.stdout[2], "a2dp-sink:")
    /\ Unwrap(extracted).cards = <<>>
    /\ Unwrap(extracted).sink_info = None

\* The empty text.
C17_WitnessEmptyText ==
    /\ IsSome(extracted)
    /\ env.mute_sinks.stdout = <<>>
    /\ Unwrap(extracted).mute_and_volume = [muted |-> None, volume |-> None]
    /\ Unwrap(extracted).inputs = <<>>

\* With its boundary line an extractor does return a record.
C17_WitnessWithBoundary ==
    /\ IsSome(extracted)
    /\ ~NoBoundary(env.bt_cards.stdout, "Name:")
    /\ Len(Unwrap(extracted).cards) = 1
    /\ IsSome(Unwrap(extracted).sink_info)

(***************************************************************************)
(* The Profiles: subsection of a card (checked under SpecBt).              *)
(***************************************************************************)
LabelOf(line) == Trim(SubSeq(Trim(line), 1, Find(Trim(line), ":") - 1))

\* The lines of the card's Profiles: subsection that carry a label and are no
\* continuation lines.
ProfileLines(h) ==
    {i \in Subsection(h, "Profiles:") :
        /\ Find(Trim(BtLines[i]), ":") # 0
        /\ LabelOf(BtLines[i]) # ""
        /\ ~StartsWith(LabelOf(BtLines[i]), "Part of")}

ProfileLabels(h) ==
    [k \in 1..Cardinality(ProfileLines(h)) |-> LabelOf(BtLines[NthOf(ProfileLines(h), k)])]

\* C18: the available profiles of a card are exactly the labels of the
\* non-continuation lines of the card's Profiles: subsection, which ends at the
\* next subsection header, at a field line such as Active Profile: or Ports:,
\* or at the next record; lines after it add no entry and cannot make A2DP
\* count as available.
C18_ProfilesSubsectionOnly ==
    BtChecked =>
        LET found == parse_bluetooth_cards(BtLines)
        IN  /\ \A h \in CardHeads :
                   IsBluetoothHead(h) =>
                       \E k \in 1..Len(found) :
                           /\ found[k].name = CardNameOf(h)
                           /\ found[k].available_profiles = ProfileLabels(h)
            /\ Contains(Outcome(BT_CHECK_NAME).message, "A2DP available") =>
                   \E h \in CardHeads : \E k \in 1..Len(ProfileLabels(h)) :
                       Contains(ToLower(ProfileLabels(h)[k]), "a2dp")

\* For the cards whose Profiles: subsection is the last thing before the Sinks:
\* subsection or the end of the record, the same statement.
ProfilesSubsectionWhenLast ==
    (BtChecked /\ \A i \in 1..Len(BtLines) : ~IsField(BtLines[i], "Ports:"))
    => LET found == parse_bluetooth_cards(BtLines)
       IN  \A h \in CardHeads :
               IsBluetoothHead(h) =>
                   \E k \in 1..Len(found) :
                       /\ found[k].name = CardNameOf(h)
                       /\ found[k].available_profiles = ProfileLabels(h)

(***************************************************************************)
(* Which record a field belongs to (checked under SpecSink).               *)
(***************************************************************************)
\* C19: in a listing of records headed `Sink #<n>`, the Description, State and
\* Active Port that parse_sink_info returns for the default sink are those of
\* the sink's own record, whatever the order of the fields in a record; the
\* check reports the suspended Warning exactly when the default sink's own
\* record says State: suspended.
C19_FieldsOfOwnRecord ==
    SinkChecked =>
        LET found == parse_sink_info(SinkLines, SinkTarget)
        IN  /\ IsSome(found)
            /\ Unwrap(found).description = OwnDescription
            /\ Unwrap(found).state = OwnState
            /\ Unwrap(found).active_port = OwnActivePort
            /\ (Outcome(SINK_CHECK_NAME).status = StatusWarning)
                   <=> (ToUpper(OwnState) = "SUSPENDED")

\* The same, for listings whose records put Name: before State:.
FieldsOfOwnRecordNameFirst ==
    (SinkChecked /\ \A h \in SinkHeads : IsField(SinkLines[h + 1], "Name:"))
    => LET found == parse_sink_info(SinkLines, SinkTarget)
       IN  /\ IsSome(found)
           /\ Unwrap(found).description = OwnDescription
           /\ Unwrap(found).state = OwnState
           /\ Unwrap(found).active_port = OwnActivePort
           /\ (Outcome(SINK_CHECK_NAME).status = StatusWarning)
                  <=> (ToUpper(OwnState) = "SUSPENDED")

(***************************************************************************)
(* The decision table of the audio-stack check (checked under SpecStack).  *)
(***************************************************************************)
StackChecked == HasOutcome(STACK_CHECK_NAME)

IsStartWireplumberWarning(outcome) ==
    /\ outcome.status = StatusWarning
    /\ outcome.message = "PipeWire is running but WirePlumber is not"

\* C20: over every combination of pipewire active, wireplumber active,
\* `pactl info` succeeded and the server name: the outcome is Error exactly
\* when pipewire is not active and `pactl info` failed; it is the
\* start-wireplumber Warning exactly when pipewire is active and wireplumber
\* is not; "Audio stack status is unclear" is never returned, and the status
\* is never Warning when pipewire is not active.
C20_StackDecisionTable ==
    StackChecked =>
        LET outcome == Outcome(STACK_CHECK_NAME)
        IN  /\ (outcome.status = StatusError)
                   <=> (~PipewireReportedActive /\ ~env.stack_pactl_info.success)
            /\ IsStartWireplumberWarning(outcome)
                   <=> (PipewireReportedActive /\ ~WireplumberReportedActive)
            /\ outcome.message # "Audio stack status is unclear"
            /\ ~PipewireReportedActive => outcome.status # StatusWarning

\* pipewire is not active, wireplumber is, and `pactl info` answers: Ok.
C20_Witness ==
    /\ StackChecked
    /\ ~PipewireReportedActive
    /\ WireplumberReportedActive
    /\ env.stack_pactl_info.success
    /\ Outcome(STACK_CHECK_NAME).status = StatusOk

\* pipewire is not active and `pactl info` failed: Error.
C20_WitnessError ==
    /\ StackChecked
    /\ ~PipewireReportedActive
    /\ ~env.stack_pactl_info.success
    /\ Outcome(STACK_CHECK_NAME).status = StatusError

\* pipewire is active and wireplumber is not: the start-wireplumber Warning.
C20_WitnessStartWireplumber ==
    /\ StackChecked
    /\ PipewireReportedActive
    /\ ~WireplumberReportedActive
    /\ IsStartWireplumberWarning(Outcome(STACK_CHECK_NAME))

(***************************************************************************)
(* Several bluetooth cards (checked under SpecBt).                         *)
(***************************************************************************)
\* The card's Active Profile: names a call/headset mode.
InCallMode(h) ==
    LET profile == ToLower(SpanValue(BtLines, CardSpan(h), "Active Profile:"))
    IN  \/ Contains(profile, "hsp")
        \/ Contains(profile, "hfp")
        \/ Contains(profile, "headset-head-unit")

\* The card's Profiles: subsection has an entry whose label holds "a2dp".
ListsA2dp(h) ==
    \E i \in Subsection(h, "Profiles:") : Contains(ToLower(LabelOf(BtLines[i])), "a2dp")

\* C21: the outcome of the bluetooth check is Error only if one bluetooth card
\* is at once the active output (the default sink references the card or one
\* of its sink entries), in call/headset mode, and lists A2DP among its
\* profiles; with an empty default sink name the outcome is never Error.
C21_ErrorNeedsOneActiveCallModeCard ==
    (HasOutcome(BT_CHECK_NAME) /\ Outcome(BT_CHECK_NAME).status = StatusError)
    => /\ BtDefault # ""
       /\ \E h \in CardHeads :
              /\ IsBluetoothHead(h)
              /\ References(h)
              /\ InCallMode(h)
              /\ ListsA2dp(h)

\* What the check does test: some bluetooth card is the active output and some
\* bluetooth card, the same or another, is in call mode and lists A2DP.
ErrorNeedsActiveCardAndCallModeCard ==
    (HasOutcome(BT_CHECK_NAME) /\ Outcome(BT_CHECK_NAME).status = StatusError)
    => /\ BtDefault # ""
       /\ \E g \in CardHeads : IsBluetoothHead(g) /\ References(g)
       /\ \E h \in CardHeads : IsBluetoothHead(h) /\ InCallMode(h) /\ ListsA2dp(h)

====
